---- MODULE Spec2Model ----
(***************************************************************************)
(* State-machine model of the Orchestrator backend:                        *)
(*   - the Scans API and the background scan executor   (src/scans.py)     *)
(*   - the cache client's fixed-window rate limiter     (src/redis_client) *)
(*   - the security manager's tokens and role check     (src/security.py)  *)
(*   - the registration endpoint                        (src/auth.py)      *)
(* Every database statement that a handler awaits is one step, so that     *)
(* handlers of different requests and the background executor interleave   *)
(* exactly where the code can be suspended.                                *)
(***************************************************************************)
EXTENDS Integers, Sequences, FiniteSets, TLC

(***************************************************************************)
(* Bounds of the model                                                     *)
(***************************************************************************)
MaxTargets == 2
MaxPorts == 1
MaxXmlHosts == 1
MaxFindings == 1

(***************************************************************************)
(* Domains                                                                 *)
(***************************************************************************)
Users == {"userA", "userB"}
NoUser == "nobody"
NoProject == "none"
Projects == {"proj1"}
\* both users are members of the one project
ProjectMembers == [p \in Projects |-> Users]

\* the model follows one scan through its life
ScanIds == {1}
NoScanId == 0
NoPort == -1

ScanType == {"port", "vulnerability", "web", "network", "service", "ssl", "dns"}
ScanStatus == {"pending", "running", "completed", "failed", "cancelled"}

HTTP_200_OK == 200
HTTP_400_BAD_REQUEST == 400
HTTP_404_NOT_FOUND == 404
HTTP_500_INTERNAL_SERVER_ERROR == 500

VARIABLES
    scans,            \* table scans: scan id -> row
    scan_results,     \* table scan_results: set of rows
    vulnerabilities,  \* table vulnerabilities: set of rows
    next_scan_id,     \* next fresh primary key of scans
    exec,             \* background tasks: scan id -> state of execute_scan
    cancel_rq,        \* the in-flight cancel_scan request
    delete_rq,        \* the in-flight delete_scan request
    resp,             \* the last HTTP response sent
    created_by,       \* history: scan id -> user that created it
    tool_stats,       \* history: scan id -> what the tools really reported
    redis_keys,       \* cache store: key -> [value, ttl] (ttl -1: no expiry)
    rl_limit,         \* the limit every check_rate_limit call passes
    rl_window,        \* the window every check_rate_limit call passes
    rl_calls,         \* caller -> state of its check_rate_limit call
    rl_now,           \* clock of the cache server, in seconds
    rl_opened,        \* history: when the key's expiry was last set
    rl_ordinal,       \* history: increments since the key was created
    rl_total,         \* history: increments made in all
    sec_now,          \* clock of the security manager, in minutes
    sec_issued,       \* tokens returned by create_access_token
    sec_verify,       \* the last verify_token call and its outcome
    perm_hist,        \* the most recent check_permission calls
    users,            \* table users: set of rows
    next_user_id,     \* next fresh primary key of users
    reg_rq,           \* client -> its in-flight register request
    reg_resp,         \* client -> the last response to its register request
    reg_total,        \* history: register requests started
    accounts,         \* user id -> state of its row of users
    guard_rq,         \* the in-flight request to an authenticated endpoint
    guard_resp,       \* the last response of an authenticated endpoint
    active_sessions,  \* quantum engine: session id -> session data
    qkd_call,         \* the last simulate_qkd_protocol call and its outcome
    q_create,         \* the last create_quantum_session call and its outcome
    q_verify,         \* the last verify_quantum_security call and its result
    q_decrypt,        \* the last quantum_decrypt call and its outcome
    blind_call,       \* the last apply_blinding call and its outcome
    life_pc,          \* position of lifespan after its startup
    shut_attempted,   \* history: shutdown steps that were begun
    shut_raised,      \* history: the shutdown step that raised, if any
    hb,               \* the heartbeat task started by lifespan
    kv_server,        \* message bus: bucket name -> state of the bucket
    kv_data,          \* message bus: bucket name -> value stored under the key
    kv_stores,        \* messaging client: names of self.kv_stores
    kv_setup,         \* progress of _setup_kv_stores
    kv_call,          \* the last kv_put / kv_get / kv_delete call
    session_keys,     \* cache store: "session:<id>" keys, id -> JSON text
    upd_rq,           \* the in-flight update_session call
    upd_resp,         \* the last update_session call and its result
    aieo_now,         \* the clock read by the loop endpoints
    aieo_resp,        \* the last loop request and its response
    pool,             \* scans by the position of their executor: how many of each
    metric_key,       \* cache store: the value under "metric:<name>", if any
    metric_hist,      \* history: increment_counter calls made and their sum
    metric_read,      \* the last get_counter call and its result
    db_scope,         \* create_scan request -> state of its get_db_session scope
    bg_task,          \* create_scan request -> its background execute_scan task
    db_late_use,      \* history: sessions used after their scope exited
    q_encrypted,      \* the last quantum_encrypt call and what it returned
    q_roundtrip       \* the last quantum_decrypt of that data and what it returned

scanVars == <<scans, scan_results, vulnerabilities, next_scan_id, exec,
              cancel_rq, delete_rq, resp, created_by, tool_stats>>
dbVars == <<scans, scan_results, vulnerabilities>>

rateVars == <<redis_keys, rl_limit, rl_window, rl_calls, rl_now, rl_opened,
              rl_ordinal, rl_total>>
tokenVars == <<sec_now, sec_issued, sec_verify>>
permVars == <<perm_hist>>
authVars == <<users, next_user_id, reg_rq, reg_resp, reg_total>>

guardVars == <<accounts, guard_rq, guard_resp>>

quantumVars == <<active_sessions, qkd_call, q_create, q_verify, q_decrypt>>

\* the subsystems below the first five
blindVars == <<blind_call>>
lifeVars == <<life_pc, shut_attempted, shut_raised, hb>>
natsVars == <<kv_server, kv_data, kv_stores, kv_setup, kv_call>>
sessionVars == <<session_keys, upd_rq, upd_resp>>
aieoVars == <<aieo_now, aieo_resp>>
poolVars == <<pool>>
counterVars == <<metric_key, metric_hist, metric_read>>
scopeVars == <<db_scope, bg_task, db_late_use>>
cipherVars == <<q_encrypted, q_roundtrip>>
laterVars ==
    <<guardVars, quantumVars, blindVars, lifeVars, natsVars, sessionVars,
      aieoVars, poolVars, counterVars, scopeVars, cipherVars>>

vars == <<scanVars, rateVars, tokenVars, permVars, authVars, laterVars>>
notScanVars == <<rateVars, tokenVars, permVars, authVars, laterVars>>
notRateVars == <<scanVars, tokenVars, permVars, authVars, laterVars>>
notTokenVars == <<scanVars, rateVars, permVars, authVars, laterVars>>
notPermVars == <<scanVars, rateVars, tokenVars, authVars, laterVars>>
notAuthVars == <<scanVars, rateVars, tokenVars, permVars, laterVars>>
firstVars == <<scanVars, rateVars, tokenVars, permVars, authVars>>
notGuardVars ==
    <<scanVars, rateVars, permVars, authVars, quantumVars, blindVars,
      lifeVars, natsVars, sessionVars, aieoVars, poolVars, counterVars,
      scopeVars, cipherVars>>
notQuantumVars ==
    <<firstVars, guardVars, blindVars, lifeVars, natsVars, sessionVars,
      aieoVars, poolVars, counterVars, scopeVars, cipherVars>>
notBlindVars ==
    <<firstVars, guardVars, quantumVars, lifeVars, natsVars, sessionVars,
      aieoVars, poolVars, counterVars, scopeVars, cipherVars>>
notLifeVars ==
    <<firstVars, guardVars, quantumVars, blindVars, natsVars, sessionVars,
      aieoVars, poolVars, counterVars, scopeVars, cipherVars>>
notNatsVars ==
    <<firstVars, guardVars, quantumVars, blindVars, lifeVars, sessionVars,
      aieoVars, poolVars, counterVars, scopeVars, cipherVars>>
notSessionVars ==
    <<firstVars, guardVars, quantumVars, blindVars, lifeVars, natsVars,
      aieoVars, poolVars, counterVars, scopeVars, cipherVars>>
notAieoVars ==
    <<firstVars, guardVars, quantumVars, blindVars, lifeVars, natsVars,
      sessionVars, poolVars, counterVars, scopeVars, cipherVars>>
notPoolVars ==
    <<firstVars, guardVars, quantumVars, blindVars, lifeVars, natsVars,
      sessionVars, aieoVars, counterVars, scopeVars, cipherVars>>
notCounterVars ==
    <<firstVars, guardVars, quantumVars, blindVars, lifeVars, natsVars,
      sessionVars, aieoVars, poolVars, scopeVars, cipherVars>>
notScopeVars ==
    <<firstVars, guardVars, quantumVars, blindVars, lifeVars, natsVars,
      sessionVars, aieoVars, poolVars, counterVars, cipherVars>>
notCipherVars ==
    <<firstVars, guardVars, quantumVars, blindVars, lifeVars, natsVars,
      sessionVars, aieoVars, poolVars, counterVars, scopeVars>>

(***************************************************************************)
(* Small helpers                                                           *)
(***************************************************************************)
\* dict.get(key, default)
DictGet(d, key, default) == IF key \in DOMAIN d THEN d[key] ELSE default

\* all sequences over S of length at most n
SeqUpTo(S, n) == UNION {[1..k -> S] : k \in 0..n}

RECURSIVE SumSeq(_)
SumSeq(s) == IF s = <<>> THEN 0 ELSE Head(s) + SumSeq(Tail(s))

WithoutKey(f, k) == [x \in DOMAIN f \ {k} |-> f[x]]

(***************************************************************************)
(* What the external tools can print (sample documents)                    *)
(***************************************************************************)
NmapPortElems ==
    { [portid |-> 22,  protocol |-> "tcp", state |-> "open",   service |-> "ssh"],
      [portid |-> 80,  protocol |-> "tcp", state |-> "open",   service |-> "http"],
      [portid |-> 21,  protocol |-> "tcp", state |-> "open",   service |-> "ftp"],
      [portid |-> 25,  protocol |-> "tcp", state |-> "open",   service |-> "smtp"],
      [portid |-> 443, protocol |-> "tcp", state |-> "closed", service |-> "https"] }

NmapHostElems ==
    { [addr |-> "10.0.0.1", ports |-> ps] : ps \in SeqUpTo(NmapPortElems, MaxPorts) }

NiktoItems ==
    { [msg |-> "Server leaks inodes", host |-> "10.0.0.1", port |-> 8080],
      [host |-> "10.0.0.1"] }

\* stdout of one tool run: a document that parses or does not
NoOutput == [wellformed |-> FALSE, hosts |-> <<>>, items |-> <<>>]
NmapDocs ==
    {NoOutput} \cup
    { [wellformed |-> TRUE, hosts |-> hs, items |-> <<>>] :
          hs \in SeqUpTo(NmapHostElems, MaxXmlHosts) }
NiktoDocs ==
    {NoOutput} \cup
    { [wellformed |-> TRUE, hosts |-> <<>>, items |-> it] :
          it \in SeqUpTo(NiktoItems, MaxFindings) }
TextDocs ==
    { [wellformed |-> TRUE, hosts |-> <<>>, items |-> it] :
          it \in SeqUpTo({[line |-> 1]}, MaxFindings) }

DocsOf(scan_type) ==
    IF scan_type \in {"port", "vulnerability", "service"} THEN NmapDocs
    ELSE IF scan_type = "web" THEN NiktoDocs
    ELSE TextDocs

\* one invocation: create_subprocess_exec raises, or the process exits
ToolOutcomes(scan_type) ==
    { [kind |-> "raise", returncode |-> 1, stdout |-> NoOutput],
      [kind |-> "exit",  returncode |-> 1, stdout |-> NoOutput] } \cup
    { [kind |-> "exit", returncode |-> 0, stdout |-> d] : d \in DocsOf(scan_type) }

(***************************************************************************)
(* Result parsing functions                                                *)
(***************************************************************************)
\* variant of OpenPorts that keeps a port whatever its state
RECURSIVE OpenPorts_anyState(_)
OpenPorts_anyState(ports) ==
    IF ports = <<>> THEN <<>>
    ELSE LET port == Head(ports)
         IN  << [port |-> port.portid, protocol |-> port.protocol,
                 state |-> port.state, service |-> port.service,
                 version |-> ""] >> \o OpenPorts_anyState(Tail(ports))

RECURSIVE OpenPorts(_)
OpenPorts(ports) ==
    IF ports = <<>> THEN <<>>
    ELSE LET port == Head(ports)
             port_data == [port |-> port.portid, protocol |-> port.protocol,
                           state |-> port.state, service |-> port.service,
                           version |-> ""]
         IN  (IF port_data.state = "open" THEN <<port_data>> ELSE <<>>)
             \o OpenPorts(Tail(ports))

RECURSIVE ParseHosts(_, _)
ParseHosts(hosts, host_data) ==
    IF hosts = <<>> THEN host_data
    ELSE ParseHosts(Tail(hosts),
             [host_data EXCEPT !.address = Head(hosts).addr,
                               !.ports = @ \o OpenPorts(Head(hosts).ports)])

parse_nmap_xml(xml_data) ==
    IF xml_data.wellformed
    THEN ParseHosts(xml_data.hosts,
                    [address |-> "", hostname |-> "", ports |-> <<>>, os |-> ""])
    ELSE [error |-> "Failed to parse nmap output"]

check_service_vulnerabilities(port) ==
    LET service == DictGet(port, "service", "")
    IN  IF service = "ssh"
        THEN << [name |-> "SSH Service Detected", severity |-> "info"] >>
        ELSE IF service = "http"
        THEN << [name |-> "HTTP Service Detected", severity |-> "info"] >>
        ELSE IF service = "ftp"
        THEN << [name |-> "FTP Service Detected", severity |-> "medium"] >>
        ELSE <<>>

RECURSIVE NiktoVulns(_)
NiktoVulns(items) ==
    IF items = <<>> THEN <<>>
    ELSE LET vulnerability == Head(items)
         IN  << [name |-> DictGet(vulnerability, "msg", "Unknown vulnerability"),
                 severity |-> "medium",
                 host |-> DictGet(vulnerability, "host", ""),
                 port |-> DictGet(vulnerability, "port", 80)] >>
             \o NiktoVulns(Tail(items))

parse_nikto_results(json_data) ==
    IF json_data.wellformed THEN NiktoVulns(json_data.items) ELSE <<>>

\* parse_traceroute / parse_ssl_cert / parse_dig_output: one record per line
parse_lines(output) == output.items

(***************************************************************************)
(* Tool adapters: the result structure each starts with, what one target   *)
(* adds to it, and what the adapter returns after its last target          *)
(***************************************************************************)
PortLike == {"port", "vulnerability", "service"}

InitialResults(scan_type) ==
    IF scan_type \in PortLike
    THEN [hosts |-> <<>>, total_hosts |-> 0, total_services |-> 0,
          vulnerabilities |-> <<>>]
    ELSE IF scan_type = "web"
    THEN [hosts |-> <<>>, vulnerabilities |-> <<>>]
    ELSE IF scan_type = "network"
    THEN [hosts |-> <<>>, topology |-> <<>>, routes |-> <<>>]
    ELSE IF scan_type = "ssl"
    THEN [certificates |-> <<>>, vulnerabilities |-> <<>>]
    ELSE [records |-> <<>>, subdomains |-> <<>>]

\* variant of execute_port_scan in which a failed target discards the
\* results gathered so far
execute_port_scan_reset(results, outcome) ==
    IF outcome.kind = "exit" /\ outcome.returncode = 0
    THEN LET host_data == parse_nmap_xml(outcome.stdout)
         IN  [results EXCEPT
                 !.hosts = Append(@, host_data),
                 !.total_hosts = @ + 1,
                 !.total_services = @ + Len(DictGet(host_data, "ports", <<>>))]
    ELSE [results EXCEPT !.hosts = <<>>, !.total_hosts = 0,
                         !.total_services = 0]

\* body of execute_port_scan's loop for one target
execute_port_scan(results, outcome) ==
    IF outcome.kind = "exit" /\ outcome.returncode = 0
    THEN LET host_data == parse_nmap_xml(outcome.stdout)
         IN  [results EXCEPT
                 !.hosts = Append(@, host_data),
                 !.total_hosts = @ + 1,
                 !.total_services = @ + Len(DictGet(host_data, "ports", <<>>))]
    ELSE results

execute_web_scan(results, outcome) ==
    IF outcome.kind = "exit" /\ outcome.returncode = 0
    THEN [results EXCEPT
             !.vulnerabilities = @ \o parse_nikto_results(outcome.stdout)]
    ELSE results

execute_network_scan(results, outcome) ==
    IF outcome.kind = "exit" /\ outcome.returncode = 0
    THEN [results EXCEPT !.routes = @ \o parse_lines(outcome.stdout)]
    ELSE results

execute_ssl_scan(results, outcome) ==
    IF outcome.kind = "exit" /\ outcome.returncode = 0
    THEN [results EXCEPT
             !.certificates = Append(@, [lines |-> Len(parse_lines(outcome.stdout))])]
    ELSE results

execute_dns_scan(results, outcome) ==
    IF outcome.kind = "exit" /\ outcome.returncode = 0
    THEN [results EXCEPT !.records = @ \o parse_lines(outcome.stdout)]
    ELSE results

\* dispatch of execute_scan, for one target of the scan
AdapterStep(scan_type, results, outcome) ==
    IF scan_type \in PortLike THEN execute_port_scan(results, outcome)
    ELSE IF scan_type = "web" THEN execute_web_scan(results, outcome)
    ELSE IF scan_type = "network" THEN execute_network_scan(results, outcome)
    ELSE IF scan_type = "ssl" THEN execute_ssl_scan(results, outcome)
    ELSE execute_dns_scan(results, outcome)

RECURSIVE PortVulns(_)
PortVulns(ports) ==
    IF ports = <<>> THEN <<>>
    ELSE check_service_vulnerabilities(Head(ports)) \o PortVulns(Tail(ports))

RECURSIVE HostVulns(_)
HostVulns(hosts) ==
    IF hosts = <<>> THEN <<>>
    ELSE PortVulns(DictGet(Head(hosts), "ports", <<>>)) \o HostVulns(Tail(hosts))

\* execute_vulnerability_scan after its port scan
execute_vulnerability_scan(port_results) ==
    [port_results EXCEPT !.vulnerabilities = HostVulns(port_results.hosts)]

\* what the adapter returns once every target has been handled
AdapterReturn(scan_type, results) ==
    IF scan_type = "vulnerability" THEN execute_vulnerability_scan(results)
    ELSE results

(***************************************************************************)
(* process_scan_results: the rows it adds and the totals it sets           *)
(***************************************************************************)
ScanResultRow(scan_id, i, host) ==
    LET ports == DictGet(host, "ports", <<>>)
    IN  [scan_id |-> scan_id, idx |-> i,
         host |-> DictGet(host, "address", "unknown"),
         port |-> IF ports # <<>> THEN ports[1].port ELSE NoPort,
         service |-> IF ports # <<>> THEN ports[1].service ELSE ""]

VulnerabilityRow(scan_id, i, vuln) ==
    [scan_id |-> scan_id, idx |-> i,
     name |-> DictGet(vuln, "name", "Unknown"),
     severity |-> DictGet(vuln, "severity", "info"),
     host |-> DictGet(vuln, "host", "unknown"),
     port |-> DictGet(vuln, "port", NoPort)]

NewScanResults(scan_id, results) ==
    LET hosts == DictGet(results, "hosts", <<>>)
    IN  { ScanResultRow(scan_id, i, hosts[i]) : i \in 1..Len(hosts) }

NewVulnerabilities(scan_id, results) ==
    LET vulns == DictGet(results, "vulnerabilities", <<>>)
    IN  { VulnerabilityRow(scan_id, i, vulns[i]) : i \in 1..Len(vulns) }

ScanStatistics(results) ==
    [total_hosts |-> DictGet(results, "total_hosts", 0),
     total_services |-> DictGet(results, "total_services", 0),
     vulnerabilities_found |-> Len(DictGet(results, "vulnerabilities", <<>>))]

(***************************************************************************)
(* Storage layer                                                           *)
(***************************************************************************)
\* variant of ForeignKeyHolds for a schema without the constraint
ForeignKeyHolds_unchecked(scan_ids, rows) == TRUE

\* ForeignKey("scans.id"): every child row names a row of scans
ForeignKeyHolds(scan_ids, rows) == \A r \in rows : r.scan_id \in scan_ids

\* variant of SelectOwnedScan that selects by id only
SelectOwnedScan_anyUser(scan_id, user) == scan_id \in DOMAIN scans

\* select(Scan).where(and_(Scan.id == scan_id, Scan.user_id == current_user.id))
SelectOwnedScan(scan_id, user) ==
    scan_id \in DOMAIN scans /\ scans[scan_id].user_id = user

ResultsOf(scan_id) == {r \in scan_results : r.scan_id = scan_id}
VulnerabilitiesOf(scan_id) == {v \in vulnerabilities : v.scan_id = scan_id}

\* variant of Cancellable that lets a completed scan through
Cancellable_withCompleted == {"pending", "running", "completed"}

\* statuses from which cancel_scan proceeds
Cancellable == {"pending", "running"}

NoFilter == "any"
Response(op, user, scan_id, code, status, listing) ==
    [op |-> op, user |-> user, scan_id |-> scan_id, code |-> code,
     status |-> status, listing |-> listing]

IdleRequest == [pc |-> "idle", user |-> NoUser, scan_id |-> NoScanId,
                results |-> {}, vulns |-> {}]

NoTask == [pc |-> "load", idx |-> 0, scan_type |-> "port", targets |-> 0,
           results |-> <<>>, status |-> "pending", broken |-> FALSE]

NoStats == [invoked |-> 0, succeeded |-> 0, raised |-> 0, open_ports |-> 0]

InitScans ==
    /\ scans = <<>>
    /\ scan_results = {}
    /\ vulnerabilities = {}
    /\ next_scan_id = 1
    /\ exec = <<>>
    /\ cancel_rq = IdleRequest
    /\ delete_rq = IdleRequest
    /\ resp = Response("none", NoUser, NoScanId, 0, "", {})
    /\ created_by = <<>>
    /\ tool_stats = <<>>

(***************************************************************************)
(* Scans API                                                               *)
(***************************************************************************)
create_scan(user, scan_type, ntargets, project_id) ==
    /\ next_scan_id \in ScanIds
    /\ LET id == next_scan_id
           new_scan == [user_id |-> user, project_id |-> project_id,
                        scan_type |-> scan_type, status |-> "pending",
                        targets |-> ntargets,
                        started_at |-> FALSE, completed_at |-> FALSE,
                        total_hosts |-> 0, total_services |-> 0,
                        vulnerabilities_found |-> 0]
       IN  /\ scans' = scans @@ (id :> new_scan)
           /\ next_scan_id' = id + 1
           \* background_tasks.add_task(execute_scan, new_scan.id, db)
           /\ exec' = exec @@ (id :> NoTask)
           /\ created_by' = created_by @@ (id :> user)
           /\ tool_stats' = tool_stats @@ (id :> NoStats)
           /\ resp' = Response("create_scan", user, id, HTTP_200_OK,
                               new_scan.status, {})
    /\ UNCHANGED <<scan_results, vulnerabilities, cancel_rq, delete_rq>>
    /\ UNCHANGED notScanVars

list_scans(user, status) ==
    /\ resp' = Response("list_scans", user, NoScanId, HTTP_200_OK, "",
                        {id \in DOMAIN scans :
                            /\ scans[id].user_id = user
                            /\ status # NoFilter => scans[id].status = status})
    /\ UNCHANGED <<dbVars, next_scan_id, exec, cancel_rq, delete_rq,
                   created_by, tool_stats>>
    /\ UNCHANGED notScanVars

get_scan(user, scan_id) ==
    /\ resp' = IF SelectOwnedScan(scan_id, user)
               THEN Response("get_scan", user, scan_id, HTTP_200_OK,
                             scans[scan_id].status, {})
               ELSE Response("get_scan", user, scan_id, HTTP_404_NOT_FOUND, "", {})
    /\ UNCHANGED <<dbVars, next_scan_id, exec, cancel_rq, delete_rq,
                   created_by, tool_stats>>
    /\ UNCHANGED notScanVars

get_scan_results(user, scan_id) ==
    /\ resp' = IF SelectOwnedScan(scan_id, user)
               THEN Response("get_scan_results", user, scan_id, HTTP_200_OK, "",
                             {r.idx : r \in ResultsOf(scan_id)})
               ELSE Response("get_scan_results", user, scan_id,
                             HTTP_404_NOT_FOUND, "", {})
    /\ UNCHANGED <<dbVars, next_scan_id, exec, cancel_rq, delete_rq,
                   created_by, tool_stats>>
    /\ UNCHANGED notScanVars

get_scan_vulnerabilities(user, scan_id, severity) ==
    /\ resp' = IF SelectOwnedScan(scan_id, user)
               THEN Response("get_scan_vulnerabilities", user, scan_id,
                             HTTP_200_OK, "",
                             {v.idx : v \in {w \in VulnerabilitiesOf(scan_id) :
                                  severity # NoFilter => w.severity = severity}})
               ELSE Response("get_scan_vulnerabilities", user, scan_id,
                             HTTP_404_NOT_FOUND, "", {})
    /\ UNCHANGED <<dbVars, next_scan_id, exec, cancel_rq, delete_rq,
                   created_by, tool_stats>>
    /\ UNCHANGED notScanVars

\* delete_scan up to "await db.delete(scan)": the scan and, by the
\* relationships' cascade, its child rows are loaded into the session
delete_scan_load(user, scan_id) ==
    /\ delete_rq.pc = "idle"
    /\ IF SelectOwnedScan(scan_id, user)
       THEN /\ delete_rq' = [pc |-> "commit", user |-> user, scan_id |-> scan_id,
                             results |-> ResultsOf(scan_id),
                             vulns |-> VulnerabilitiesOf(scan_id)]
            /\ UNCHANGED resp
       ELSE /\ resp' = Response("delete_scan", user, scan_id,
                                HTTP_404_NOT_FOUND, "", {})
            /\ UNCHANGED delete_rq
    /\ UNCHANGED <<dbVars, next_scan_id, exec, cancel_rq, created_by, tool_stats>>
    /\ UNCHANGED notScanVars

\* "await db.commit()" of delete_scan: the loaded children and the scan are
\* deleted in one transaction, which the foreign keys may reject
delete_scan_commit ==
    /\ delete_rq.pc = "commit"
    /\ LET id == delete_rq.scan_id
           scans_after == WithoutKey(scans, id)
           results_after == scan_results \ delete_rq.results
           vulns_after == vulnerabilities \ delete_rq.vulns
       IN  IF /\ ForeignKeyHolds(DOMAIN scans_after, results_after)
              /\ ForeignKeyHolds(DOMAIN scans_after, vulns_after)
           THEN /\ scans' = scans_after
                /\ scan_results' = results_after
                /\ vulnerabilities' = vulns_after
                /\ resp' = Response("delete_scan", delete_rq.user, id,
                                    HTTP_200_OK, "", {})
           ELSE /\ UNCHANGED dbVars
                /\ resp' = Response("delete_scan", delete_rq.user, id,
                                    HTTP_500_INTERNAL_SERVER_ERROR, "", {})
    /\ delete_rq' = IdleRequest
    /\ UNCHANGED <<next_scan_id, exec, cancel_rq, created_by, tool_stats>>
    /\ UNCHANGED notScanVars

\* cancel_scan up to its status check
cancel_scan_load(user, scan_id) ==
    /\ cancel_rq.pc = "idle"
    /\ IF ~SelectOwnedScan(scan_id, user)
       THEN /\ resp' = Response("cancel_scan", user, scan_id,
                                HTTP_404_NOT_FOUND, "", {})
            /\ UNCHANGED cancel_rq
       ELSE IF scans[scan_id].status \notin Cancellable
       THEN /\ resp' = Response("cancel_scan", user, scan_id,
                                HTTP_400_BAD_REQUEST, "", {})
            /\ UNCHANGED cancel_rq
       ELSE /\ cancel_rq' = [IdleRequest EXCEPT !.pc = "commit", !.user = user,
                                                !.scan_id = scan_id]
            /\ UNCHANGED resp
    /\ UNCHANGED <<dbVars, next_scan_id, exec, delete_rq, created_by, tool_stats>>
    /\ UNCHANGED notScanVars

\* "scan.status = CANCELLED; await db.commit()": an UPDATE of the row by its
\* primary key, which fails when the row is gone
cancel_scan_commit ==
    /\ cancel_rq.pc = "commit"
    /\ LET id == cancel_rq.scan_id
       IN  IF id \in DOMAIN scans
           THEN /\ scans' = [scans EXCEPT ![id].status = "cancelled"]
                /\ resp' = Response("cancel_scan", cancel_rq.user, id,
                                    HTTP_200_OK, "cancelled", {})
           ELSE /\ UNCHANGED scans
                /\ resp' = Response("cancel_scan", cancel_rq.user, id,
                                    HTTP_500_INTERNAL_SERVER_ERROR, "", {})
    /\ cancel_rq' = IdleRequest
    /\ UNCHANGED <<scan_results, vulnerabilities, next_scan_id, exec,
                   delete_rq, created_by, tool_stats>>
    /\ UNCHANGED notScanVars

(***************************************************************************)
(* Background scan execution (execute_scan), one step per await            *)
(***************************************************************************)
\* open <port> elements in what a tool run printed (for tool_stats only)
OpenPortElems(outcome) ==
    IF outcome.kind = "exit" /\ outcome.returncode = 0 /\ outcome.stdout.wellformed
    THEN LET hosts == outcome.stdout.hosts
         IN  SumSeq([h \in 1..Len(hosts) |->
                 Cardinality({p \in 1..Len(hosts[h].ports) :
                                  hosts[h].ports[p].state = "open"})])
    ELSE 0

\* "result = await db.execute(select(Scan).where(Scan.id == scan_id))"
execute_scan_load(id) ==
    /\ id \in DOMAIN exec
    /\ exec[id].pc = "load"
    /\ exec' = IF id \in DOMAIN scans
               THEN [exec EXCEPT ![id].pc = "start",
                                 ![id].scan_type = scans[id].scan_type,
                                 ![id].targets = scans[id].targets,
                                 ![id].status = scans[id].status]
               ELSE [exec EXCEPT ![id].pc = "absent"]
    /\ UNCHANGED <<dbVars, next_scan_id, cancel_rq, delete_rq, resp,
                   created_by, tool_stats>>
    /\ UNCHANGED notScanVars

\* "scan.status = RUNNING; scan.started_at = utcnow(); await db.commit()"
execute_scan_start(id) ==
    /\ id \in DOMAIN exec
    /\ exec[id].pc = "start"
    /\ IF id \in DOMAIN scans
       THEN /\ scans' = [scans EXCEPT ![id].status = "running",
                                      ![id].started_at = TRUE]
            /\ exec' = [exec EXCEPT
                   ![id].pc = "tools",
                   ![id].status = "running",
                   ![id].results = InitialResults(exec[id].scan_type)]
       ELSE \* the UPDATE matches no row; the commit raises outside the try
            /\ exec' = [exec EXCEPT ![id].pc = "raised"]
            /\ UNCHANGED scans
    /\ UNCHANGED <<scan_results, vulnerabilities, next_scan_id, cancel_rq,
                   delete_rq, resp, created_by, tool_stats>>
    /\ UNCHANGED notScanVars

\* one iteration of the adapter's "for target in scan.targets"
execute_scan_tool(id, outcome) ==
    /\ id \in DOMAIN exec
    /\ exec[id].pc = "tools"
    /\ exec[id].idx < exec[id].targets
    /\ outcome \in ToolOutcomes(exec[id].scan_type)
    /\ exec' = [exec EXCEPT
           ![id].idx = @ + 1,
           ![id].results = AdapterStep(exec[id].scan_type, @, outcome),
           ![id].pc = IF exec[id].idx + 1 = exec[id].targets
                      THEN "persist" ELSE "tools"]
    /\ tool_stats' = [tool_stats EXCEPT
           ![id].invoked = @ + 1,
           ![id].succeeded = @ + (IF outcome.kind = "exit" /\ outcome.returncode = 0
                                  THEN 1 ELSE 0),
           ![id].raised = @ + (IF outcome.kind = "raise" THEN 1 ELSE 0),
           ![id].open_ports = @ + OpenPortElems(outcome)]
    /\ UNCHANGED <<dbVars, next_scan_id, cancel_rq, delete_rq, resp, created_by>>
    /\ UNCHANGED notScanVars

\* variant of process_scan_results that may store what the adapter has
\* gathered before its last target
process_scan_results_early(id) ==
    /\ id \in DOMAIN exec \cap DOMAIN scans
    /\ exec[id].pc \in {"tools", "persist"}
    /\ LET results == AdapterReturn(exec[id].scan_type, exec[id].results)
           stats == ScanStatistics(results)
       IN  /\ scan_results' = scan_results \cup NewScanResults(id, results)
           /\ vulnerabilities' =
                  vulnerabilities \cup NewVulnerabilities(id, results)
           /\ scans' = [scans EXCEPT
                   ![id].total_hosts = stats.total_hosts,
                   ![id].total_services = stats.total_services,
                   ![id].vulnerabilities_found = stats.vulnerabilities_found]
           /\ exec' = [exec EXCEPT ![id].pc = "final", ![id].results = <<>>,
                                   ![id].status = "completed"]
    /\ UNCHANGED <<next_scan_id, cancel_rq, delete_rq, resp, created_by, tool_stats>>
    /\ UNCHANGED notScanVars

\* the adapter returns and "await process_scan_results(scan, results, db)"
\* runs up to its commit; then the try block ends or the handler runs
process_scan_results(id) ==
    /\ id \in DOMAIN exec
    /\ exec[id].pc = "persist"
    /\ LET results == AdapterReturn(exec[id].scan_type, exec[id].results)
           new_results == NewScanResults(id, results)
           new_vulns == NewVulnerabilities(id, results)
           stats == ScanStatistics(results)
           \* the unit of work is empty when no row is added and no counter
           \* differs from the loaded value
           dirty == \/ new_results # {} \/ new_vulns # {}
                    \/ stats.total_hosts # 0 \/ stats.total_services # 0
                    \/ stats.vulnerabilities_found # 0
       IN  IF dirty /\ ~(/\ id \in DOMAIN scans
                         /\ ForeignKeyHolds(DOMAIN scans, new_results)
                         /\ ForeignKeyHolds(DOMAIN scans, new_vulns))
           THEN \* the flush fails: "except Exception" sets FAILED on the
                \* object, the session is left needing a rollback
                /\ exec' = [exec EXCEPT ![id].pc = "final",
                                        ![id].results = <<>>,
                                        ![id].status = "failed",
                                        ![id].broken = TRUE]
                /\ UNCHANGED dbVars
           ELSE /\ scan_results' = scan_results \cup new_results
                /\ vulnerabilities' = vulnerabilities \cup new_vulns
                /\ scans' = IF id \in DOMAIN scans
                            THEN [scans EXCEPT
                                    ![id].total_hosts = stats.total_hosts,
                                    ![id].total_services = stats.total_services,
                                    ![id].vulnerabilities_found =
                                        stats.vulnerabilities_found]
                            ELSE scans
                /\ exec' = [exec EXCEPT ![id].pc = "final",
                                        ![id].results = <<>>,
                                        ![id].status = "completed"]
    /\ UNCHANGED <<next_scan_id, cancel_rq, delete_rq, resp, created_by, tool_stats>>
    /\ UNCHANGED notScanVars

\* variant of execute_scan_finish whose commit stores nothing
execute_scan_finish_lost(id) ==
    /\ id \in DOMAIN exec
    /\ exec[id].pc = "final"
    /\ exec' = [exec EXCEPT ![id].pc = "done"]
    /\ UNCHANGED <<dbVars, next_scan_id, cancel_rq, delete_rq, resp,
                   created_by, tool_stats>>
    /\ UNCHANGED notScanVars

\* the last "await db.commit()" of execute_scan
execute_scan_finish(id) ==
    /\ id \in DOMAIN exec
    /\ exec[id].pc = "final"
    /\ IF exec[id].broken \/ id \notin DOMAIN scans
       THEN \* the session refuses the commit, or the UPDATE matches no row
            /\ exec' = [exec EXCEPT ![id].pc = "raised"]
            /\ UNCHANGED scans
       ELSE /\ scans' = [scans EXCEPT
                   ![id].status = exec[id].status,
                   ![id].completed_at =
                       IF exec[id].status = "completed" THEN TRUE ELSE @]
            /\ exec' = [exec EXCEPT ![id].pc = "done"]
    /\ UNCHANGED <<scan_results, vulnerabilities, next_scan_id, cancel_rq,
                   delete_rq, resp, created_by, tool_stats>>
    /\ UNCHANGED notScanVars

StatusFilters == {NoFilter, "completed"}
SeverityFilters == {NoFilter, "medium"}

\* a sample of the tool outcomes: a raise, or one finding
SampleOutcomes(scan_type) ==
    { [kind |-> "raise", returncode |-> 1, stdout |-> NoOutput] } \cup
    { [kind |-> "exit", returncode |-> 0, stdout |-> d] :
          d \in {x \in DocsOf(scan_type) :
                    /\ x.wellformed
                    /\ Len(x.hosts) + Len(x.items) = 1
                    /\ \A h \in 1..Len(x.hosts) :
                          /\ Len(x.hosts[h].ports) = 1
                          /\ x.hosts[h].ports[1].service = "ftp"} }

\* the scheduler runs some step of the background task, the tools giving
\* any outcome or one of the sample
ExecutorStep(sampled) ==
    \/ \E id \in DOMAIN exec : execute_scan_load(id)
    \/ \E id \in DOMAIN exec : execute_scan_start(id)
    \/ \E id \in DOMAIN exec :
          \E o \in IF sampled THEN SampleOutcomes(exec[id].scan_type)
                             ELSE ToolOutcomes(exec[id].scan_type) :
             execute_scan_tool(id, o)
    \/ \E id \in DOMAIN exec : process_scan_results(id)
    \/ \E id \in DOMAIN exec : execute_scan_finish(id)

\* the life of a scan: one user creates it, any user may try to cancel or
\* delete it, the executor runs with every tool outcome
NextScans ==
    \/ \E t \in ScanType, n \in 1..MaxTargets :
          create_scan("userB", t, n, NoProject)
    \/ \E u \in Users, id \in ScanIds : delete_scan_load(u, id)
    \/ delete_scan_commit
    \/ \E u \in Users, id \in ScanIds : cancel_scan_load(u, id)
    \/ cancel_scan_commit
    \/ ExecutorStep(FALSE)

\* the life of a scan with the sample of the tool outcomes
NextScansSampled ==
    \/ \E t \in ScanType, n \in 1..MaxTargets :
          create_scan("userB", t, n, NoProject)
    \/ \E u \in Users, id \in ScanIds : delete_scan_load(u, id)
    \/ delete_scan_commit
    \/ \E u \in Users, id \in ScanIds : cancel_scan_load(u, id)
    \/ cancel_scan_commit
    \/ ExecutorStep(TRUE)

\* the whole Scans API called by every user
NextApi ==
    \/ \E u \in Users, t \in {"vulnerability", "web"},
          p \in Projects \cup {NoProject} : create_scan(u, t, 1, p)
    \/ \E u \in Users, st \in StatusFilters : list_scans(u, st)
    \/ \E u \in Users, id \in ScanIds : get_scan(u, id)
    \/ \E u \in Users, id \in ScanIds : get_scan_results(u, id)
    \/ \E u \in Users, id \in ScanIds, sv \in SeverityFilters :
          get_scan_vulnerabilities(u, id, sv)
    \/ \E u \in Users, id \in ScanIds : delete_scan_load(u, id)
    \/ delete_scan_commit
    \/ \E u \in Users, id \in ScanIds : cancel_scan_load(u, id)
    \/ cancel_scan_commit
    \/ ExecutorStep(TRUE)

(***************************************************************************)
(* Properties of the scan life cycle                                       *)
(***************************************************************************)
StatusTransitions ==
    { <<"pending", "running">>, <<"running", "completed">>,
      <<"running", "failed">>, <<"pending", "cancelled">>,
      <<"running", "cancelled">> }

\* C1: the stored status of a scan changes only along pending->running,
\* running->completed, running->failed, pending->cancelled and
\* running->cancelled (completed, failed and cancelled are terminal), and
\* only cancel_scan, never the executor, moves a scan into cancelled.
C1_StatusStateMachine ==
    [][\A id \in DOMAIN scans \cap DOMAIN scans' :
          scans[id].status # scans'[id].status =>
              /\ <<scans[id].status, scans'[id].status>> \in StatusTransitions
              /\ scans'[id].status = "cancelled" => exec' = exec]_vars

\* C2: cancel_scan by the owner on a scan whose status is pending or running
\* goes on to its commit, which stores cancelled and answers 200; on a scan
\* whose status is completed, failed or cancelled it answers 400 and no row
\* of the database changes.
C2_CancelContract ==
    [][/\ \A u \in Users, id \in ScanIds :
             (cancel_scan_load(u, id) /\ SelectOwnedScan(id, u)) =>
                 IF scans[id].status \in {"pending", "running"}
                 THEN cancel_rq'.pc = "commit" /\ UNCHANGED resp
                 ELSE /\ resp' = Response("cancel_scan", u, id,
                                          HTTP_400_BAD_REQUEST, "", {})
                      /\ UNCHANGED dbVars
       /\ (/\ cancel_scan_commit
           /\ cancel_rq.scan_id \in DOMAIN scans
           /\ scans[cancel_rq.scan_id].status \in {"pending", "running"}) =>
              /\ scans'[cancel_rq.scan_id].status = "cancelled"
              /\ resp'.op = "cancel_scan"
              /\ resp'.code = HTTP_200_OK]_vars

\* a second cancel_scan is refused after a first one went through
C2_Witness ==
    /\ resp.op = "cancel_scan"
    /\ resp.code = HTTP_400_BAD_REQUEST
    /\ resp.scan_id \in DOMAIN scans
    /\ scans[resp.scan_id].status = "cancelled"

SingleScanOps == {"get_scan", "get_scan_results", "get_scan_vulnerabilities",
                  "cancel_scan", "delete_scan"}

\* C3: a call of get_scan, get_scan_results, get_scan_vulnerabilities,
\* cancel_scan or delete_scan by a user other than the scan's creator is
\* answered 404 and changes no row, whatever the scan's project, and
\* list_scans returns only scans the caller created.
C3_OwnershipIsolation ==
    /\ [](/\ (resp.op \in SingleScanOps /\ resp.scan_id \in DOMAIN created_by
              /\ created_by[resp.scan_id] # resp.user)
                 => resp.code = HTTP_404_NOT_FOUND
          /\ resp.op = "list_scans" =>
                 \A id \in resp.listing : created_by[id] = resp.user
          /\ cancel_rq.pc = "commit" =>
                 created_by[cancel_rq.scan_id] = cancel_rq.user
          /\ delete_rq.pc = "commit" =>
                 created_by[delete_rq.scan_id] = delete_rq.user)
    /\ [][\A u \in Users, id \in ScanIds :
             (/\ id \in DOMAIN created_by /\ created_by[id] # u
              /\ \/ get_scan(u, id) \/ get_scan_results(u, id)
                 \/ \E sv \in SeverityFilters : get_scan_vulnerabilities(u, id, sv)
                 \/ cancel_scan_load(u, id) \/ delete_scan_load(u, id)
                 \/ (cancel_scan_commit /\ cancel_rq.user = u)
                 \/ (delete_scan_commit /\ delete_rq.user = u))
                => /\ UNCHANGED dbVars
                   /\ resp'.code = HTTP_404_NOT_FOUND]_vars

\* a member of the scan's project who did not create the scan is refused
\* the deletion of a scan that has findings
C3_Witness ==
    /\ resp.op = "delete_scan"
    /\ resp.code = HTTP_404_NOT_FOUND
    /\ resp.scan_id \in DOMAIN scans
    /\ scans[resp.scan_id].user_id # resp.user
    /\ scans[resp.scan_id].project_id \in Projects
    /\ resp.user \in ProjectMembers[scans[resp.scan_id].project_id]
    /\ VulnerabilitiesOf(resp.scan_id) # {}

\* C4: every ScanResult and Vulnerability row belongs to a scan that exists,
\* and once delete_scan has answered 200 neither the scan nor any row of it
\* is stored, however the executor's steps fall between the delete's.
C4_NoOrphanRows ==
    /\ \A r \in scan_results \cup vulnerabilities : r.scan_id \in DOMAIN scans
    /\ (resp.op = "delete_scan" /\ resp.code = HTTP_200_OK) =>
           /\ resp.scan_id \notin DOMAIN scans
           /\ ResultsOf(resp.scan_id) = {}
           /\ VulnerabilitiesOf(resp.scan_id) = {}

\* a scan whose executor had stored result rows has been deleted
C4_Witness ==
    /\ resp.op = "delete_scan"
    /\ resp.code = HTTP_200_OK
    /\ resp.scan_id \in DOMAIN exec
    /\ exec[resp.scan_id].pc = "done"
    /\ exec[resp.scan_id].scan_type = "vulnerability"
    /\ tool_stats[resp.scan_id].open_ports > 0

C6_FailuresEndFailed ==
    \A id \in DOMAIN exec :
        /\ exec[id].pc # "raised"
        /\ (/\ exec[id].pc = "done"
            /\ id \in DOMAIN scans
            /\ scans[id].status # "cancelled"
            /\ tool_stats[id].raised = scans[id].targets)
           => scans[id].status = "failed"

(***************************************************************************)
(* Cache client: check_rate_limit over the store's INCR and EXPIRE         *)
(***************************************************************************)
MaxCallers == 2
MaxLimit == 2
MaxWindow == 2
MaxTime == 4
MaxCalls == 4

Callers == 1..MaxCallers
RateKey == "rate:login"
NoExpiry == -1

IdleCall == [pc |-> "idle", current |-> 0, ordinal |-> 0, seq |-> 0,
             result |-> FALSE]

\* the limit and the window are arguments every call repeats
InitRate(limits, windows) ==
    /\ redis_keys = <<>>
    /\ rl_limit \in limits
    /\ rl_window \in windows
    /\ rl_calls = [c \in Callers |-> IdleCall]
    /\ rl_now = 0
    /\ rl_opened = -1
    /\ rl_ordinal = 0
    /\ rl_total = 0

\* variant of RateLimitAllows that refuses the call that reaches the limit
RateLimitAllows_strict(current, limit) == current < limit

\* "return current <= limit"
RateLimitAllows(current, limit) == current <= limit

\* variant of FirstIncrement that holds for every call
FirstIncrement_always(current) == TRUE

\* "if current == 1"
FirstIncrement(current) == current = 1

\* "current = await self.redis.incr(key)": INCR creates a missing key at 0,
\* adds one and keeps the key's expiry
check_rate_limit_incr(c) ==
    /\ rl_calls[c].pc \in {"idle", "returned"}
    /\ rl_total < MaxCalls
    /\ LET old == IF RateKey \in DOMAIN redis_keys
                  THEN redis_keys[RateKey]
                  ELSE [value |-> 0, ttl |-> NoExpiry]
           current == old.value + 1
       IN  /\ redis_keys' = (RateKey :> [old EXCEPT !.value = current])
           /\ rl_calls' = [rl_calls EXCEPT ![c] =
                  [pc |-> "incremented", current |-> current,
                   ordinal |-> rl_ordinal + 1, seq |-> rl_total + 1,
                   result |-> FALSE]]
    /\ rl_ordinal' = rl_ordinal + 1
    /\ rl_total' = rl_total + 1
    /\ UNCHANGED <<rl_limit, rl_window, rl_now, rl_opened>>
    /\ UNCHANGED notRateVars

\* "if current == 1: await self.redis.expire(key, window)" and the return
check_rate_limit_return(c) ==
    /\ rl_calls[c].pc = "incremented"
    /\ redis_keys' = IF /\ FirstIncrement(rl_calls[c].current)
                         /\ RateKey \in DOMAIN redis_keys
                      THEN [redis_keys EXCEPT ![RateKey].ttl = rl_window]
                      ELSE redis_keys
    /\ rl_opened' = IF rl_calls[c].ordinal = 1 THEN rl_now ELSE rl_opened
    /\ rl_calls' = [rl_calls EXCEPT
           ![c].pc = "returned",
           ![c].result = RateLimitAllows(rl_calls[c].current, rl_limit)]
    /\ UNCHANGED <<rl_limit, rl_window, rl_now, rl_ordinal, rl_total>>
    /\ UNCHANGED notRateVars

\* one second passes on the cache server; a key whose expiry is reached is
\* removed
RedisTick ==
    /\ rl_now < MaxTime
    /\ rl_now' = rl_now + 1
    /\ IF RateKey \in DOMAIN redis_keys /\ redis_keys[RateKey].ttl = 1
       THEN /\ redis_keys' = <<>>
            /\ rl_ordinal' = 0
            /\ rl_opened' = -1
       ELSE /\ redis_keys' = [k \in DOMAIN redis_keys |->
                   IF redis_keys[k].ttl > 0
                   THEN [redis_keys[k] EXCEPT !.ttl = @ - 1]
                   ELSE redis_keys[k]]
            /\ UNCHANGED <<rl_ordinal, rl_opened>>
    /\ UNCHANGED <<rl_limit, rl_window, rl_calls, rl_total>>
    /\ UNCHANGED notRateVars

\* the call ends between its INCR and its EXPIRE: the connection drops
\* or the caller's task is cancelled at the second await
check_rate_limit_fail(c) ==
    /\ rl_calls[c].pc = "incremented"
    /\ rl_calls' = [rl_calls EXCEPT ![c].pc = "failed"]
    /\ UNCHANGED <<redis_keys, rl_limit, rl_window, rl_now, rl_opened,
                   rl_ordinal, rl_total>>
    /\ UNCHANGED notRateVars

NextRate ==
    \/ \E c \in Callers : check_rate_limit_incr(c)
    \/ \E c \in Callers : check_rate_limit_return(c)
    \/ RedisTick

\* the rate limiter with calls that can fail part-way
NextRateFailing ==
    \/ NextRate
    \/ \E c \in Callers : check_rate_limit_fail(c)

\* C7: in the life of the counter key (one window) the n-th call returns
\* true iff n <= limit; the call that makes the first increment sets the
\* key's expiry to window seconds, the key then expires exactly window
\* seconds after that, and the first call after it finds the counter at 1.
C7_FixedWindow ==
    /\ [](\A c \in Callers :
            rl_calls[c].pc = "returned" =>
                rl_calls[c].result = (rl_calls[c].ordinal <= rl_limit))
    /\ []((RateKey \in DOMAIN redis_keys /\ redis_keys[RateKey].ttl > 0) =>
            /\ rl_opened >= 0
            /\ redis_keys[RateKey].ttl = rl_opened + rl_window - rl_now)
    /\ [][\A c \in Callers :
             (check_rate_limit_return(c) /\ rl_calls[c].ordinal = 1) =>
                 /\ RateKey \in DOMAIN redis_keys'
                 /\ redis_keys'[RateKey].ttl = rl_window]_vars
    /\ [][\A c \in Callers :
             (check_rate_limit_incr(c) /\ RateKey \notin DOMAIN redis_keys) =>
                 /\ rl_calls'[c].current = 1
                 /\ rl_calls'[c].ordinal = 1]_vars

\* a call was refused in one window and a later call opened a new window
C7_Witness ==
    \E c1, c2 \in Callers :
        /\ rl_calls[c1].pc = "returned" /\ ~rl_calls[c1].result
        /\ rl_calls[c2].pc = "returned" /\ rl_calls[c2].result
        /\ rl_calls[c2].seq > rl_calls[c1].seq
        /\ rl_calls[c2].ordinal = 1

(***************************************************************************)
(* Security manager: access tokens                                         *)
(***************************************************************************)
MaxTokens == 1

UserRole == {"admin", "researcher", "operator", "viewer"}
ACCESS_TOKEN_EXPIRE_MINUTES == 60 * 24 * 7
SecretKey == "settings.secret_key"
OtherKey == "another key"

\* the instants at which tokens are issued and presented
ClockValues == {0, 1, ACCESS_TOKEN_EXPIRE_MINUTES - 1,
                ACCESS_TOKEN_EXPIRE_MINUTES, ACCESS_TOKEN_EXPIRE_MINUTES + 1}

NoPayload == [sub |-> NoUser, role |-> "viewer", exp |-> 0, iat |-> 0]
GarbageToken == [wellformed |-> FALSE, payload |-> NoPayload, key |-> OtherKey]

\* jwt.encode: the claims, signed with the key
jwt_encode(payload, key) == [wellformed |-> TRUE, payload |-> payload, key |-> key]

\* jwt.decode: the claims, or the exception it raises
jwt_decode(token, key, now) ==
    IF ~token.wellformed
    THEN [error |-> "DecodeError", payload |-> NoPayload]
    ELSE IF token.key # key
    THEN [error |-> "InvalidSignatureError", payload |-> NoPayload]
    ELSE IF token.payload.exp <= now
    THEN [error |-> "ExpiredSignatureError", payload |-> NoPayload]
    ELSE [error |-> "", payload |-> token.payload]

\* names the module bound by "import jwt" defines
JwtModuleNames == {"encode", "decode", "PyJWTError", "InvalidTokenError",
                   "DecodeError", "InvalidSignatureError",
                   "ExpiredSignatureError"}

create_access_token(user_id, role, now) ==
    jwt_encode([sub |-> user_id, role |-> role,
                exp |-> now + ACCESS_TOKEN_EXPIRE_MINUTES, iat |-> now],
               SecretKey)

\* "except jwt.JWTError: return None": the handler's class is looked up
\* when an exception arrives; a failed lookup is itself an exception
verify_token(token, now) ==
    LET decoded == jwt_decode(token, SecretKey, now)
    IN  IF decoded.error = ""
        THEN [outcome |-> "payload", payload |-> decoded.payload]
        ELSE IF "JWTError" \in JwtModuleNames
        THEN [outcome |-> "none", payload |-> NoPayload]
        ELSE [outcome |-> "raised", payload |-> NoPayload]

InitTokens ==
    /\ sec_now = 0
    /\ sec_issued = {}
    /\ sec_verify = [token |-> GarbageToken, at |-> 0, outcome |-> "nocall",
                     payload |-> NoPayload]

IssueToken(user_id, role) ==
    /\ Cardinality(sec_issued) < MaxTokens
    /\ sec_issued' = sec_issued \cup {create_access_token(user_id, role, sec_now)}
    /\ UNCHANGED <<sec_now, sec_verify>>
    /\ UNCHANGED notTokenVars

\* tokens a client can present: issued ones, re-signed ones, anything else
Presentable ==
    sec_issued
    \cup {[t EXCEPT !.key = OtherKey, !.payload.role = "admin"] : t \in sec_issued}
    \cup {GarbageToken}

VerifyToken(token) ==
    /\ token \in Presentable
    /\ LET r == verify_token(token, sec_now)
       IN  sec_verify' = [token |-> token, at |-> sec_now,
                          outcome |-> r.outcome, payload |-> r.payload]
    /\ UNCHANGED <<sec_now, sec_issued>>
    /\ UNCHANGED notTokenVars

TokenClock(t) ==
    /\ t \in ClockValues
    /\ t > sec_now
    /\ sec_now' = t
    /\ UNCHANGED <<sec_issued, sec_verify>>
    /\ UNCHANGED notTokenVars

NextTokens ==
    \/ \E u \in Users, r \in UserRole : IssueToken(u, r)
    \/ \E t \in Presentable : VerifyToken(t)
    \/ \E t \in ClockValues : TokenClock(t)

(***************************************************************************)
(* Security manager: role-based access control                             *)
(***************************************************************************)
PermHist == 3

role_hierarchy == [viewer |-> 1, operator |-> 2, researcher |-> 3, admin |-> 4]

\* variant of check_permission that demands a strictly higher role
check_permission_strict(user_role, required_role) ==
    DictGet(role_hierarchy, user_role, 0) > DictGet(role_hierarchy, required_role, 0)

check_permission(user_role, required_role) ==
    DictGet(role_hierarchy, user_role, 0) >= DictGet(role_hierarchy, required_role, 0)

InitPerm == perm_hist = <<>>

CheckPermission(user_role, required_role) ==
    /\ LET h == Append(perm_hist,
                       [user_role |-> user_role, required_role |-> required_role,
                        result |-> check_permission(user_role, required_role)])
       IN  perm_hist' = IF Len(h) > PermHist THEN Tail(h) ELSE h
    /\ UNCHANGED notPermVars

NextPerm == \E a \in UserRole, r \in UserRole : CheckPermission(a, r)

(***************************************************************************)
(* Authentication API: register                                            *)
(***************************************************************************)
MaxClients == 2
MaxRegistrations == 3

Clients == 1..MaxClients
Usernames == {"alice", "bob"}
Emails == {"alice@example.org", "bob@example.org"}

IdleRegister == [pc |-> "idle", username |-> "", email |-> ""]
NoRegisterResponse == [code |-> 0, username |-> "", email |-> "", user_id |-> 0]

\* unique=True on User.username and User.email
UniqueHolds(rows) ==
    \A a \in rows, b \in rows :
        a.id # b.id => a.username # b.username /\ a.email # b.email

InitAuth ==
    /\ users = {}
    /\ next_user_id = 1
    /\ reg_rq = [c \in Clients |-> IdleRegister]
    /\ reg_resp = [c \in Clients |-> NoRegisterResponse]
    /\ reg_total = 0

\* "select(User).where(User.username == register_data.username)"
register_check_username(c, username, email) ==
    /\ reg_rq[c].pc = "idle"
    /\ reg_total < MaxRegistrations
    /\ reg_total' = reg_total + 1
    /\ IF \E u \in users : u.username = username
       THEN /\ reg_resp' = [reg_resp EXCEPT ![c] =
                   [code |-> HTTP_400_BAD_REQUEST, username |-> username,
                    email |-> email, user_id |-> 0]]
            /\ UNCHANGED reg_rq
       ELSE /\ reg_rq' = [reg_rq EXCEPT ![c] =
                   [pc |-> "email", username |-> username, email |-> email]]
            /\ reg_resp' = [reg_resp EXCEPT ![c] = NoRegisterResponse]
    /\ UNCHANGED <<users, next_user_id>>
    /\ UNCHANGED notAuthVars

\* "select(User).where(User.email == register_data.email)"
register_check_email(c) ==
    /\ reg_rq[c].pc = "email"
    /\ IF \E u \in users : u.email = reg_rq[c].email
       THEN /\ reg_resp' = [reg_resp EXCEPT ![c] =
                   [code |-> HTTP_400_BAD_REQUEST, username |-> reg_rq[c].username,
                    email |-> reg_rq[c].email, user_id |-> 0]]
            /\ reg_rq' = [reg_rq EXCEPT ![c] = IdleRegister]
       ELSE /\ reg_rq' = [reg_rq EXCEPT ![c].pc = "commit"]
            /\ UNCHANGED reg_resp
    /\ UNCHANGED <<users, next_user_id, reg_total>>
    /\ UNCHANGED notAuthVars

\* "db.add(new_user); await db.commit()": the INSERT is checked against the
\* unique indexes; its failure is not caught by the handler
register_commit(c) ==
    /\ reg_rq[c].pc = "commit"
    /\ LET new_user == [id |-> next_user_id, username |-> reg_rq[c].username,
                        email |-> reg_rq[c].email, role |-> "viewer"]
       IN  IF UniqueHolds(users \cup {new_user})
           THEN /\ users' = users \cup {new_user}
                /\ next_user_id' = next_user_id + 1
                /\ reg_resp' = [reg_resp EXCEPT ![c] =
                       [code |-> HTTP_200_OK, username |-> new_user.username,
                        email |-> new_user.email, user_id |-> new_user.id]]
           ELSE /\ UNCHANGED <<users, next_user_id>>
                /\ reg_resp' = [reg_resp EXCEPT ![c] =
                       [code |-> HTTP_500_INTERNAL_SERVER_ERROR,
                        username |-> new_user.username,
                        email |-> new_user.email, user_id |-> 0]]
    /\ reg_rq' = [reg_rq EXCEPT ![c] = IdleRegister]
    /\ UNCHANGED reg_total
    /\ UNCHANGED notAuthVars

NextAuth ==
    \/ \E c \in Clients, n \in Usernames, e \in Emails :
          register_check_username(c, n, e)
    \/ \E c \in Clients : register_check_email(c)
    \/ \E c \in Clients : register_commit(c)

(***************************************************************************)
(* Authentication API: the get_current_user dependency                     *)
(***************************************************************************)
HTTP_401_UNAUTHORIZED == 401


IdleGuard == [pc |-> "idle", token |-> GarbageToken, at |-> 0, sub |-> NoUser]

InitGuard ==
    /\ accounts = [u \in Users |-> "active"]
    /\ guard_rq = IdleGuard
    /\ guard_resp = [code |-> 0, token |-> GarbageToken, at |-> 0,
                    account |-> "absent", handler |-> FALSE]

\* get_current_user up to "await db.execute(select(User)...)"; an exception
\* of verify_token leaves the dependency and the server answers 500
get_current_user_verify(token) ==
    /\ guard_rq.pc = "idle"
    /\ token \in Presentable
    /\ LET payload == verify_token(token, sec_now)
       IN  IF payload.outcome = "raised"
           THEN /\ guard_resp' = [code |-> HTTP_500_INTERNAL_SERVER_ERROR,
                                  token |-> token, at |-> sec_now,
                                  account |-> "absent", handler |-> FALSE]
                /\ UNCHANGED guard_rq
           ELSE IF payload.outcome = "none"
           THEN /\ guard_resp' = [code |-> HTTP_401_UNAUTHORIZED,
                                  token |-> token, at |-> sec_now,
                                  account |-> "absent", handler |-> FALSE]
                /\ UNCHANGED guard_rq
           ELSE /\ guard_rq' = [pc |-> "lookup", token |-> token, at |-> sec_now,
                                sub |-> payload.payload.sub]
                /\ UNCHANGED guard_resp
    /\ UNCHANGED <<accounts, tokenVars>>
    /\ UNCHANGED notGuardVars

\* "if not user or not user.is_active: raise 401", else the user is handed
\* to the endpoint's handler (get_current_user_info), which answers
get_current_user_lookup ==
    /\ guard_rq.pc = "lookup"
    /\ LET user == accounts[guard_rq.sub]
       IN  guard_resp' =
               IF user # "active"
               THEN [code |-> HTTP_401_UNAUTHORIZED, token |-> guard_rq.token,
                     at |-> guard_rq.at, account |-> user, handler |-> FALSE]
               ELSE [code |-> HTTP_200_OK, token |-> guard_rq.token,
                     at |-> guard_rq.at, account |-> user, handler |-> TRUE]
    /\ guard_rq' = IdleGuard
    /\ UNCHANGED <<accounts, tokenVars>>
    /\ UNCHANGED notGuardVars

\* an administrator clears is_active of a user's row, or removes the row
SetAccount(u, state) ==
    /\ accounts[u] = "active"
    /\ state \in {"inactive", "absent"}
    /\ accounts' = [accounts EXCEPT ![u] = state]
    /\ UNCHANGED <<guard_rq, guard_resp, tokenVars>>
    /\ UNCHANGED notGuardVars

NextGuard ==
    \/ \E u \in Users, r \in UserRole : IssueToken(u, r)
    \/ \E t \in ClockValues : TokenClock(t)
    \/ \E t \in Presentable : get_current_user_verify(t)
    \/ get_current_user_lookup
    \/ \E u \in Users, st \in {"active", "inactive", "absent"} : SetAccount(u, st)

(***************************************************************************)
(* Quantum engine: the QBER decisions                                      *)
(***************************************************************************)
\* names the module bound by "import secrets" defines
SecretsModuleNames == {"choice", "randbelow", "randbits", "token_bytes",
                       "token_hex", "token_urlsafe", "compare_digest",
                       "SystemRandom"}

SessionIds == {"s1"}

\* "error_bits / len(test_bits) if test_bits else 0": a rate is kept as the
\* fraction num/den, den > 0, and compared exactly
Qber(error_bits, test_bits) ==
    IF test_bits = 0 THEN [num |-> 0, den |-> 1]
    ELSE [num |-> error_bits, den |-> test_bits]

\* the literal 0.11
QberThreshold == [num |-> 11, den |-> 100]

Below(q, r) == q.num * r.den < r.num * q.den
Above(q, r) == q.num * r.den > r.num * q.den



NoMetadata == [qber |-> Qber(0, 0), security_check |-> "",
               eavesdropping_detected |-> FALSE]

\* the metadata simulate_qkd_protocol builds from the rate
QkdMetadata(qber) ==
    [qber |-> qber,
     security_check |-> IF Below(qber, QberThreshold) THEN "PASSED" ELSE "FAILED",
     eavesdropping_detected |-> Above(qber, QberThreshold)]

\* simulate_qkd_protocol, test_bits and error_bits being what the random
\* source would deliver: "secrets.sample(...)" is evaluated first
simulate_qkd_protocol(test_bits, error_bits) ==
    IF "sample" \in SecretsModuleNames
    THEN [outcome |-> "returned", metadata |-> QkdMetadata(Qber(error_bits, test_bits))]
    ELSE [outcome |-> "raised", metadata |-> NoMetadata]

\* "qber_valid": session.get("qber", 0) < 0.11
QberValid(qber) == Below(qber, QberThreshold)

\* "if quantum_key.qber and quantum_key.qber > 0.11: raise"
QberRejected(qber) == qber.num # 0 /\ Above(qber, QberThreshold)

NoSessions == [sid \in {} |-> 0]

\* session tables the engine's checks are applied to
SessionTables ==
    {NoSessions} \cup
    { [sid \in SessionIds |->
           [qber |-> q, quantum_key_id |-> "qk_1", is_active |-> a]] :
          q \in {Qber(e, 100) : e \in {0, 8, 10, 11, 12}}, a \in BOOLEAN }

InitQuantum(tables) ==
    /\ active_sessions \in tables
    /\ qkd_call = [outcome |-> "nocall", test_bits |-> 0, error_bits |-> 0,
                   metadata |-> NoMetadata]
    /\ q_create = "nocall"
    /\ q_verify = [outcome |-> "nocall", session_id |-> "", valid |-> FALSE,
                   qber_valid |-> FALSE]
    /\ q_decrypt = [outcome |-> "nocall", session_id |-> ""]

SimulateQkd(test_bits, error_bits) ==
    /\ error_bits <= test_bits
    /\ LET r == simulate_qkd_protocol(test_bits, error_bits)
       IN  qkd_call' = [outcome |-> r.outcome, test_bits |-> test_bits,
                        error_bits |-> error_bits, metadata |-> r.metadata]
    /\ UNCHANGED <<active_sessions, q_create, q_verify, q_decrypt>>
    /\ UNCHANGED notQuantumVars

\* create_quantum_session: generate_quantum_key evaluates
\* "secrets.uniform(0.01, 0.08)" before anything is stored
create_quantum_session(session_id, qber) ==
    /\ IF "uniform" \in SecretsModuleNames
       THEN /\ active_sessions' =
                   [sid \in DOMAIN active_sessions \cup {session_id} |->
                       IF sid = session_id
                       THEN [qber |-> qber, quantum_key_id |-> "qk_1",
                             is_active |-> TRUE]
                       ELSE active_sessions[sid]]
            /\ q_create' = "returned"
       ELSE /\ UNCHANGED active_sessions
            /\ q_create' = "raised"
    /\ UNCHANGED <<qkd_call, q_verify, q_decrypt>>
    /\ UNCHANGED notQuantumVars

verify_quantum_security(session_id) ==
    /\ q_verify' =
           IF session_id \notin DOMAIN active_sessions
           THEN [outcome |-> "not found", session_id |-> session_id,
                 valid |-> FALSE, qber_valid |-> FALSE]
           ELSE LET session == active_sessions[session_id]
                    qber_valid == QberValid(session.qber)
                IN  [outcome |-> "checked", session_id |-> session_id,
                     valid |-> session.is_active /\ qber_valid,
                     qber_valid |-> qber_valid]
    /\ UNCHANGED <<active_sessions, qkd_call, q_create, q_decrypt>>
    /\ UNCHANGED notQuantumVars

quantum_decrypt(session_id, key_id) ==
    /\ q_decrypt' =
           IF \/ session_id \notin DOMAIN active_sessions
              \/ active_sessions[session_id].quantum_key_id # key_id
           THEN [outcome |-> "invalid key", session_id |-> session_id]
           ELSE IF QberRejected(active_sessions[session_id].qber)
           THEN [outcome |-> "compromised", session_id |-> session_id]
           ELSE [outcome |-> "decrypted", session_id |-> session_id]
    /\ UNCHANGED <<active_sessions, qkd_call, q_create, q_verify>>
    /\ UNCHANGED notQuantumVars

NextQuantum ==
    \* len(test_bits) = min(100, len(sifted_key_bits) // 10)
    \/ \E t \in {0, 10, 100} : \E e \in 0..t : SimulateQkd(t, e)
    \/ \E sid \in SessionIds, e \in 1..8 : create_quantum_session(sid, Qber(e, 100))
    \/ \E sid \in SessionIds : verify_quantum_security(sid)
    \/ \E sid \in SessionIds, k \in {"qk_1", "qk_2"} : quantum_decrypt(sid, k)

(***************************************************************************)
(* Security manager: the blinding method                                   *)
(***************************************************************************)
MaxPayload == 2
MaxRatio == 3

Bytes == {0, 1}


InitBlind == blind_call = [outcome |-> "nocall", real_data |-> <<>>, noise_ratio |-> 1,
               noise |-> <<>>, insert_pos |-> 0, result |-> <<>>]

\* "noise[:insert_pos] + real_data + noise[insert_pos:]"
BlindedBuffer(real_data, noise, insert_pos) ==
    SubSeq(noise, 1, insert_pos) \o real_data
        \o SubSeq(noise, insert_pos + 1, Len(noise))

\* apply_blinding: token_bytes delivers the noise, randbelow(n) delivers a
\* number of 0..n-1 and raises ValueError unless n > 0
apply_blinding(real_data, noise_ratio) ==
    /\ \E noise \in [1..(Len(real_data) * noise_ratio) -> Bytes] :
          LET n == Len(noise) - Len(real_data)
          IN  IF n > 0
              THEN \E insert_pos \in 0..(n - 1) :
                      blind_call' =
                          [outcome |-> "returned", real_data |-> real_data,
                           noise_ratio |-> noise_ratio, noise |-> noise,
                           insert_pos |-> insert_pos,
                           result |-> BlindedBuffer(real_data, noise, insert_pos)]
              ELSE blind_call' =
                      [outcome |-> "raised", real_data |-> real_data,
                       noise_ratio |-> noise_ratio, noise |-> noise,
                       insert_pos |-> 0, result |-> <<>>]
    /\ UNCHANGED notBlindVars

NextBlind ==
    \E real_data \in SeqUpTo(Bytes, MaxPayload), noise_ratio \in 1..MaxRatio :
        apply_blinding(real_data, noise_ratio)

(***************************************************************************)
(* Application lifespan: the heartbeat task and the shutdown               *)
(***************************************************************************)
MaxBeats == 3

CallOutcomes == {"ok", "raise"}
ShutdownSteps == {"nats_client.close", "redis_client.close", "close_database"}

\* the state after a successful startup: both clients are set and
\* "asyncio.create_task(background_tasks())" has run
InitLife ==
    /\ life_pc = "serving"
    /\ shut_attempted = {}
    /\ shut_raised = "none"
    /\ hb = [pc |-> "metrics", beats |-> 0, logged |-> 0, cause |-> "none",
             failed |-> "none"]

\* the server stops: lifespan resumes after its yield
lifespan_shutdown ==
    /\ life_pc = "serving"
    /\ life_pc' = "nats_client.close"
    /\ UNCHANGED <<shut_attempted, shut_raised, hb>>
    /\ UNCHANGED notLifeVars

\* one awaited step inside the shutdown's single try block; an exception
\* leaves the block for "except Exception", which logs it
ShutdownStep(step, next, outcome) ==
    /\ life_pc = step
    /\ shut_attempted' = shut_attempted \cup {step}
    /\ IF outcome = "raise"
       THEN /\ life_pc' = "down"
            /\ shut_raised' = step
       ELSE /\ life_pc' = next
            /\ UNCHANGED shut_raised
    /\ UNCHANGED hb
    /\ UNCHANGED notLifeVars

\* update_system_metrics catches its own exceptions and logs them
update_system_metrics(outcome) ==
    /\ hb.pc = "metrics"
    /\ hb.beats < MaxBeats
    /\ hb' = [hb EXCEPT !.pc = "cleanup",
                        !.failed = IF outcome = "raise" THEN "metrics" ELSE "none",
                        !.logged = IF outcome = "raise" /\ @ < MaxBeats
                                   THEN @ + 1 ELSE @]
    /\ UNCHANGED <<life_pc, shut_attempted, shut_raised>>
    /\ UNCHANGED notLifeVars

\* cleanup_old_data catches its own exceptions and logs them
cleanup_old_data(outcome) ==
    /\ hb.pc = "cleanup"
    /\ hb' = [hb EXCEPT !.pc = "telemetry",
                        !.failed = IF outcome = "raise" THEN "cleanup" ELSE @,
                        !.logged = IF outcome = "raise" /\ @ < MaxBeats
                                   THEN @ + 1 ELSE @]
    /\ UNCHANGED <<life_pc, shut_attempted, shut_raised>>
    /\ UNCHANGED notLifeVars

\* "await nats_client.record_telemetry(...)": an exception of publish leaves
\* "while True" for the "except Exception" of background_tasks, which logs
\* it; the function then returns
record_telemetry(outcome) ==
    /\ hb.pc = "telemetry"
    /\ hb' = IF outcome = "raise"
             THEN [hb EXCEPT !.pc = "ended", !.cause = "error",
                             !.failed = "telemetry",
                             !.logged = IF @ < MaxBeats THEN @ + 1 ELSE @]
             ELSE [hb EXCEPT !.pc = "sleep"]
    /\ UNCHANGED <<life_pc, shut_attempted, shut_raised>>
    /\ UNCHANGED notLifeVars

\* "await asyncio.sleep(30)" returns and the loop starts over
heartbeat_sleep ==
    /\ hb.pc = "sleep"
    /\ hb' = [hb EXCEPT !.pc = "metrics", !.beats = @ + 1, !.failed = "none"]
    /\ UNCHANGED <<life_pc, shut_attempted, shut_raised>>
    /\ UNCHANGED notLifeVars

\* the task is cancelled while suspended at one of its awaits
heartbeat_cancel ==
    /\ hb.pc # "ended"
    /\ hb' = [hb EXCEPT !.pc = "ended", !.cause = "cancelled"]
    /\ UNCHANGED <<life_pc, shut_attempted, shut_raised>>
    /\ UNCHANGED notLifeVars

NextLife ==
    \/ lifespan_shutdown
    \/ \E o \in CallOutcomes :
          ShutdownStep("nats_client.close", "redis_client.close", o)
    \/ \E o \in CallOutcomes :
          ShutdownStep("redis_client.close", "close_database", o)
    \/ \E o \in CallOutcomes : ShutdownStep("close_database", "down", o)
    \/ \E o \in CallOutcomes : update_system_metrics(o)
    \/ \E o \in CallOutcomes : cleanup_old_data(o)
    \/ \E o \in CallOutcomes : record_telemetry(o)
    \/ heartbeat_sleep
    \/ heartbeat_cancel

(***************************************************************************)
(* Messaging client: key-value buckets                                     *)
(***************************************************************************)
MaxSetups == 2

\* kv_configs, in the order of the dict
kv_configs ==
    << [name |-> "config",    history |-> 5,   ttl |-> 86400],
       [name |-> "sessions",  history |-> 10,  ttl |-> 3600],
       [name |-> "cache",     history |-> 1,   ttl |-> 1800],
       [name |-> "telemetry", history |-> 100, ttl |-> 604800] >>

BucketNames == {kv_configs[i].name : i \in DOMAIN kv_configs}



\* buckets the key-value helpers are called with, one of them never set up
CallBuckets == {"sessions", "telemetry", "metrics"}
NoValue == "none"

\* js.create_key_value(bucket, history, ttl); the client library refuses
\* a history above its KV_MAX_HISTORY of 64
create_key_value(server, config) ==
    IF config.history > 64 THEN "KeyHistoryTooLargeError"
    ELSE IF server[config.name] = "other" THEN "BadRequestError"
    ELSE "ok"

\* js.key_value(name)
key_value(server, name) ==
    IF server[name] = "absent" THEN "BucketNotFoundError" ELSE "ok"

InitNats(servers) ==
    /\ kv_server \in servers
    /\ kv_data = [b \in BucketNames |-> NoValue]
    /\ kv_stores = {}
    /\ kv_setup = [pc |-> "idle", idx |-> 1, runs |-> 0, raised |-> FALSE]
    /\ kv_call = [op |-> "none", bucket |-> "", outcome |-> "nocall",
                  value |-> NoValue, server |-> "absent", stored |-> NoValue,
                  registered |-> FALSE, error |-> FALSE]

\* connect calls "await self._setup_kv_stores()"
setup_kv_stores_begin ==
    /\ kv_setup.pc = "idle"
    /\ kv_setup.runs < MaxSetups
    /\ kv_setup' = [kv_setup EXCEPT !.pc = "running", !.idx = 1, !.runs = @ + 1]
    /\ UNCHANGED <<kv_server, kv_data, kv_stores, kv_call>>
    /\ UNCHANGED notNatsVars

\* the body of "for name, config in kv_configs.items()"
setup_kv_stores_bucket ==
    /\ kv_setup.pc = "running"
    /\ LET config == kv_configs[kv_setup.idx]
           created == create_key_value(kv_server, config) = "ok"
           bound == key_value(kv_server, config.name) = "ok"
       IN  /\ kv_server' = IF created
                           THEN [kv_server EXCEPT ![config.name] = "same"]
                           ELSE kv_server
           /\ kv_stores' = IF created \/ bound
                           THEN kv_stores \cup {config.name}
                           ELSE kv_stores
    /\ kv_setup' = IF kv_setup.idx = Len(kv_configs)
                   THEN [kv_setup EXCEPT !.pc = "idle"]
                   ELSE [kv_setup EXCEPT !.idx = @ + 1]
    /\ UNCHANGED <<kv_data, kv_call>>
    /\ UNCHANGED notNatsVars

KvCall(op, bucket, outcome, value, error) ==
    [op |-> op, bucket |-> bucket, outcome |-> outcome, value |-> value,
     server |-> IF bucket \in BucketNames THEN kv_server[bucket] ELSE "absent",
     stored |-> IF bucket \in BucketNames THEN kv_data[bucket] ELSE NoValue,
     registered |-> bucket \in kv_stores, error |-> error]

kv_put(bucket, value) ==
    /\ IF bucket \notin kv_stores
       THEN /\ kv_call' = KvCall("kv_put", bucket, "raised", NoValue, FALSE)
            /\ UNCHANGED kv_data
       ELSE IF kv_server[bucket] = "absent"
       THEN /\ kv_call' = KvCall("kv_put", bucket, "raised", NoValue, FALSE)
            /\ UNCHANGED kv_data
       ELSE /\ kv_call' = KvCall("kv_put", bucket, "returned", NoValue, FALSE)
            /\ kv_data' = [kv_data EXCEPT ![bucket] = value]
    /\ UNCHANGED <<kv_server, kv_stores, kv_setup>>
    /\ UNCHANGED notNatsVars

\* kv_get; store_error: the bus fails to answer the request
kv_get(bucket, store_error) ==
    /\ kv_call' =
           IF bucket \notin kv_stores
           THEN \* raise ValueError(f"KV store '{bucket}' not found")
                KvCall("kv_get", bucket, "raised", NoValue, store_error)
           ELSE IF \/ store_error
                   \/ kv_server[bucket] = "absent"
                   \/ kv_data[bucket] = NoValue
           THEN \* except BucketNotFoundError / except Exception: return None
                KvCall("kv_get", bucket, "returned", NoValue, store_error)
           ELSE KvCall("kv_get", bucket, "returned", kv_data[bucket], store_error)
    /\ UNCHANGED <<kv_server, kv_data, kv_stores, kv_setup>>
    /\ UNCHANGED notNatsVars

kv_delete(bucket) ==
    /\ IF bucket \notin kv_stores
       THEN /\ kv_call' = KvCall("kv_delete", bucket, "raised", NoValue, FALSE)
            /\ UNCHANGED kv_data
       ELSE IF kv_server[bucket] = "absent"
       THEN /\ kv_call' = KvCall("kv_delete", bucket, "raised", NoValue, FALSE)
            /\ UNCHANGED kv_data
       ELSE /\ kv_call' = KvCall("kv_delete", bucket, "returned", NoValue, FALSE)
            /\ kv_data' = [kv_data EXCEPT ![bucket] = NoValue]
    /\ UNCHANGED <<kv_server, kv_stores, kv_setup>>
    /\ UNCHANGED notNatsVars

\* another client of the bus deletes a bucket
DropBucket(bucket) ==
    /\ kv_setup.pc = "idle"
    /\ kv_server[bucket] # "absent"
    /\ kv_server' = [kv_server EXCEPT ![bucket] = "absent"]
    /\ kv_data' = [kv_data EXCEPT ![bucket] = NoValue]
    /\ UNCHANGED <<kv_stores, kv_setup, kv_call>>
    /\ UNCHANGED notNatsVars

NextNats ==
    \/ setup_kv_stores_begin
    \/ setup_kv_stores_bucket
    \/ \E b \in CallBuckets, v \in {"v1"} : kv_put(b, v)
    \/ \E b \in CallBuckets, e \in BOOLEAN : kv_get(b, e)
    \/ \E b \in CallBuckets : kv_delete(b)
    \/ \E b \in CallBuckets \cap BucketNames : DropBucket(b)

(***************************************************************************)
(* Cache client: sessions                                                  *)
(***************************************************************************)
CacheSessionIds == {"sid1"}

\* session data: a dict over some of the fields
SessionDicts ==
    UNION { [fs -> {1, 2}] : fs \in SUBSET {"a", "b"} }

\* json.dumps / json.loads of a dict with string keys
json_dumps(data) == [text |-> "object", members |-> data]
json_loads(text) == text.members

\* existing.update(data)
DictUpdate(existing, data) ==
    [f \in DOMAIN existing \cup DOMAIN data |->
        IF f \in DOMAIN data THEN data[f] ELSE existing[f]]

NoDict == [f \in {} |-> 0]
IdleUpdate == [pc |-> "idle", session_id |-> "", data |-> NoDict,
               existing |-> NoDict]

InitSessions ==
    /\ session_keys = [sid \in {} |-> 0]
    /\ upd_rq = IdleUpdate
    /\ upd_resp = [called |-> FALSE, session_id |-> "", data |-> NoDict,
                     existed |-> FALSE, before |-> NoDict, result |-> FALSE,
                     present |-> FALSE, after |-> NoDict]

\* SET session:<id> <json> EX <seconds>
SetSessionKey(session_id, data) ==
    [sid \in DOMAIN session_keys \cup {session_id} |->
        IF sid = session_id THEN json_dumps(data) ELSE session_keys[sid]]

create_session(session_id, data) ==
    /\ session_keys' = SetSessionKey(session_id, data)
    /\ UNCHANGED <<upd_rq, upd_resp>>
    /\ UNCHANGED notSessionVars

\* delete_session, or the key's expiry
delete_session(session_id) ==
    /\ session_id \in DOMAIN session_keys
    /\ session_keys' = [sid \in DOMAIN session_keys \ {session_id} |->
                           session_keys[sid]]
    /\ UNCHANGED <<upd_rq, upd_resp>>
    /\ UNCHANGED notSessionVars

\* "existing = await self.get_session(session_id)" and "if existing:"
update_session_get(session_id, data) ==
    /\ upd_rq.pc = "idle"
    /\ LET existed == session_id \in DOMAIN session_keys
           existing == IF existed THEN json_loads(session_keys[session_id])
                       ELSE NoDict
       IN  IF existed /\ DOMAIN existing # {}   \* "if existing:"
           THEN /\ upd_rq' = [pc |-> "set", session_id |-> session_id,
                              data |-> data, existing |-> existing]
                /\ UNCHANGED upd_resp
           ELSE \* return False
                /\ upd_resp' = [called |-> TRUE, session_id |-> session_id,
                                data |-> data, existed |-> existed,
                                before |-> existing, result |-> FALSE,
                                present |-> existed, after |-> existing]
                /\ UNCHANGED upd_rq
    /\ UNCHANGED session_keys
    /\ UNCHANGED notSessionVars

\* "existing.update(data); return await self.create_session(...)"
update_session_set ==
    /\ upd_rq.pc = "set"
    /\ LET merged == DictUpdate(upd_rq.existing, upd_rq.data)
       IN  /\ session_keys' = SetSessionKey(upd_rq.session_id, merged)
           /\ upd_resp' = [called |-> TRUE, session_id |-> upd_rq.session_id,
                           data |-> upd_rq.data, existed |-> TRUE,
                           before |-> upd_rq.existing, result |-> TRUE,
                           present |-> TRUE,
                           after |-> json_loads(json_dumps(merged))]
    /\ upd_rq' = IdleUpdate
    /\ UNCHANGED notSessionVars

NextSessions ==
    \/ \E sid \in CacheSessionIds, d \in SessionDicts : create_session(sid, d)
    \/ \E sid \in CacheSessionIds : delete_session(sid)
    \/ \E sid \in CacheSessionIds, d \in SessionDicts : update_session_get(sid, d)
    \/ update_session_set

(***************************************************************************)
(* Event orchestration: loop endpoints                                     *)
(***************************************************************************)
MaxAieoTime == 2
MaxEventLimit == 2

\* path parameter values: the three loop types, and others
LoopTypes == {"slow", "medium", "fast", "Slow", "", "hourly"}

\* variant of ValidLoopTypes without the fast loop
ValidLoopTypes_noFast == {"slow", "medium"}

\* ["slow", "medium", "fast"]
ValidLoopTypes == {"slow", "medium", "fast"}


InitAieo ==
    /\ aieo_now = 0
    /\ aieo_resp = [endpoint |-> "none", loop_type |-> "", user |-> "",
                   code |-> 0, detail |-> "", events |-> <<>>,
                   message |-> "", timestamp |-> 0]

AieoClock ==
    /\ aieo_now < MaxAieoTime
    /\ aieo_now' = aieo_now + 1
    /\ UNCHANGED aieo_resp
    /\ UNCHANGED notAieoVars

InvalidLoopType(endpoint, loop_type, current_user) ==
    [endpoint |-> endpoint, loop_type |-> loop_type, user |-> current_user,
     code |-> HTTP_400_BAD_REQUEST, detail |-> "Invalid loop type",
     events |-> <<>>, message |-> "", timestamp |-> aieo_now]

get_loop_events(loop_type, limit, current_user) ==
    /\ aieo_resp' =
          IF loop_type \notin ValidLoopTypes
          THEN InvalidLoopType("events", loop_type, current_user)
          ELSE [endpoint |-> "events", loop_type |-> loop_type,
                user |-> current_user, code |-> HTTP_200_OK, detail |-> "",
                events |-> [i \in 1..limit |->   \* range(limit)
                              [id |-> i - 1,
                               type |-> IF loop_type = "slow"
                                        THEN "scan_completion"
                                        ELSE "network_event",
                               timestamp |-> aieo_now]],
                message |-> "", timestamp |-> aieo_now]
    /\ UNCHANGED aieo_now
    /\ UNCHANGED notAieoVars

trigger_loop_execution(loop_type, current_user) ==
    /\ aieo_resp' =
          IF loop_type \notin ValidLoopTypes
          THEN InvalidLoopType("trigger", loop_type, current_user)
          ELSE [endpoint |-> "trigger", loop_type |-> loop_type,
                user |-> current_user, code |-> HTTP_200_OK, detail |-> "",
                events |-> <<>>, message |-> "started",
                timestamp |-> aieo_now]
    /\ UNCHANGED aieo_now
    /\ UNCHANGED notAieoVars

NextAieo ==
    \/ AieoClock
    \/ \E lt \in LoopTypes, limit \in ((0 - 1)..MaxEventLimit), u \in Usernames :
          get_loop_events(lt, limit, u)
    \/ \E lt \in LoopTypes, u \in Usernames : trigger_loop_execution(lt, u)

(***************************************************************************)
(* Scans API: how many executors run at once                               *)
(***************************************************************************)
MAX_CONCURRENT_SCANS == 10
MaxCreated == 11

InitPool == pool = [pending |-> 0, executing |-> 0, finished |-> 0]

\* create_scan: the row is committed as pending and
\* "background_tasks.add_task(execute_scan, new_scan.id, db)" runs, whatever
\* the number of executors in flight
create_scan_task ==
    /\ pool.pending + pool.executing + pool.finished < MaxCreated
    /\ pool' = [pool EXCEPT !.pending = @ + 1]
    /\ UNCHANGED notPoolVars

\* execute_scan of one pending scan stores running and starts its tools
execute_scan_begin ==
    /\ pool.pending > 0
    /\ pool' = [pool EXCEPT !.pending = @ - 1, !.executing = @ + 1]
    /\ UNCHANGED notPoolVars

\* execute_scan of one running scan returns or raises
execute_scan_end ==
    /\ pool.executing > 0
    /\ pool' = [pool EXCEPT !.executing = @ - 1, !.finished = @ + 1]
    /\ UNCHANGED notPoolVars

NextPool == create_scan_task \/ execute_scan_begin \/ execute_scan_end

(***************************************************************************)
(* Cache client: counters over the store's INCRBY and GET                  *)
(***************************************************************************)
MaxIncrements == 2

\* variant of incrby that stores the amount in place of the sum
incrby_set(stored, amount) == <<amount>>

\* INCRBY key amount: a missing key counts as 0; the server runs the
\* command as one step
incrby(stored, amount) ==
    IF stored = <<>> THEN <<amount>> ELSE <<stored[1] + amount>>

InitCounter ==
    /\ metric_key = <<>>
    /\ metric_hist = [count |-> 0, sum |-> 0]
    /\ metric_read = [called |-> FALSE, value |-> 0, count |-> 0, sum |-> 0]

increment_counter(amount) ==
    /\ metric_hist.count < MaxIncrements
    /\ metric_key' = incrby(metric_key, amount)
    /\ metric_hist' = [count |-> metric_hist.count + 1,
                       sum |-> metric_hist.sum + amount]
    /\ UNCHANGED metric_read
    /\ UNCHANGED notCounterVars

\* "value = await self.get(key); return int(value) if value else 0"
get_counter ==
    /\ metric_read' = [called |-> TRUE,
                       value |-> IF metric_key # <<>> THEN metric_key[1] ELSE 0,
                       count |-> metric_hist.count, sum |-> metric_hist.sum]
    /\ UNCHANGED <<metric_key, metric_hist>>
    /\ UNCHANGED notCounterVars

\* the rate limiter's and the counters' callers together
NextCounters ==
    \/ NextRate
    \/ \E amount \in {1, 2} : increment_counter(amount)
    \/ get_counter

(***************************************************************************)
(* Database sessions: the scope of get_db_session and who uses its session *)
(***************************************************************************)
MaxRequests == 2

\* a session is named by the create_scan request whose scope acquired it
InitScopes ==
    /\ db_scope = [r \in 1..MaxRequests |-> "none"]
    /\ bg_task = [r \in 1..MaxRequests |-> [pc |-> "none", db |-> 0]]
    /\ db_late_use = {}

\* "async with AsyncSessionLocal() as session: ... yield session"
get_db_session_enter(r) ==
    /\ db_scope[r] = "none"
    /\ db_scope' = [db_scope EXCEPT ![r] = "open"]
    /\ UNCHANGED <<bg_task, db_late_use>>
    /\ UNCHANGED notScopeVars

\* create_scan's body: the row is added and committed on db, then
\* "background_tasks.add_task(execute_scan, new_scan.id, db)"
create_scan_add_task(r) ==
    /\ db_scope[r] = "open"
    /\ bg_task[r].pc = "none"
    /\ bg_task' = [bg_task EXCEPT ![r] = [pc |-> "queued", db |-> r]]
    /\ UNCHANGED <<db_scope, db_late_use>>
    /\ UNCHANGED notScopeVars

\* "finally: await session.close()", once the handler has returned; the
\* framework runs it before or after the request's background task
get_db_session_exit(r) ==
    /\ db_scope[r] = "open"
    /\ bg_task[r].pc # "none"
    /\ db_scope' = [db_scope EXCEPT ![r] = "closed"]
    /\ UNCHANGED <<bg_task, db_late_use>>
    /\ UNCHANGED notScopeVars

\* one awaited statement of execute_scan on the session it was passed; a
\* closed session begins a new transaction when it is used again
execute_scan_on_db(r) ==
    /\ bg_task[r].pc \in {"queued", "load", "start", "persist"}
    /\ bg_task' = [bg_task EXCEPT ![r].pc =
           CASE @ = "queued" -> "load"
             [] @ = "load" -> "start"
             [] @ = "start" -> "persist"
             [] OTHER -> "done"]
    /\ db_late_use' = IF db_scope[bg_task[r].db] = "closed"
                      THEN db_late_use \cup {bg_task[r].db}
                      ELSE db_late_use
    /\ UNCHANGED db_scope
    /\ UNCHANGED notScopeVars

NextScopes ==
    \/ \E r \in 1..MaxRequests : get_db_session_enter(r)
    \/ \E r \in 1..MaxRequests : create_scan_add_task(r)
    \/ \E r \in 1..MaxRequests : get_db_session_exit(r)
    \/ \E r \in 1..MaxRequests : execute_scan_on_db(r)

(***************************************************************************)
(* Quantum engine: encryption with the session key                         *)
(***************************************************************************)
KeyLen == 2
MaxPlain == 3

\* what "secrets.token_bytes(32)" can deliver, on KeyLen bytes
KeyMaterials == [1..KeyLen -> Bytes]

\* _symmetric_encrypt: the key repeated to the length of the text, then XOR
\* byte by byte; _symmetric_decrypt is the same function
symmetric_encrypt(key, text) ==
    [i \in 1..Len(text) |-> (text[i] + key[((i - 1) % Len(key)) + 1]) % 2]

\* bytes.hex() and bytes.fromhex()
hex(bytes) == [hexdigits |-> bytes]
fromhex(text) == text.hexdigits

InitCipher ==
    /\ q_encrypted = [outcome |-> "nocall", session_id |-> "",
                      plaintext |-> <<>>, ciphertext |-> hex(<<>>),
                      key_id |-> ""]
    /\ q_roundtrip = [outcome |-> "nocall", sent |-> <<>>, plaintext |-> <<>>]

\* quantum_encrypt; key_material is what get_session_key draws in this call
quantum_encrypt(session_id, plaintext, key_material) ==
    /\ q_encrypted' =
           IF session_id \notin DOMAIN active_sessions
           THEN [outcome |-> "no key", session_id |-> session_id,
                 plaintext |-> plaintext, ciphertext |-> hex(<<>>),
                 key_id |-> ""]
           ELSE [outcome |-> "encrypted", session_id |-> session_id,
                 plaintext |-> plaintext,
                 ciphertext |-> hex(symmetric_encrypt(key_material, plaintext)),
                 key_id |-> active_sessions[session_id].quantum_key_id]
    /\ UNCHANGED q_roundtrip
    /\ UNCHANGED notCipherVars

\* quantum_decrypt of the data quantum_encrypt returned for the session;
\* key_material is what get_session_key draws in this call
quantum_decrypt_encrypted(key_material) ==
    /\ q_encrypted.outcome = "encrypted"
    /\ LET session_id == q_encrypted.session_id
       IN  q_roundtrip' =
               IF \/ session_id \notin DOMAIN active_sessions
                  \/ active_sessions[session_id].quantum_key_id # q_encrypted.key_id
               THEN [outcome |-> "invalid key", sent |-> q_encrypted.plaintext,
                     plaintext |-> <<>>]
               ELSE IF QberRejected(active_sessions[session_id].qber)
               THEN [outcome |-> "compromised", sent |-> q_encrypted.plaintext,
                     plaintext |-> <<>>]
               ELSE [outcome |-> "decrypted", sent |-> q_encrypted.plaintext,
                     plaintext |-> symmetric_encrypt(key_material,
                                       fromhex(q_encrypted.ciphertext))]
    /\ UNCHANGED q_encrypted
    /\ UNCHANGED notCipherVars

NextCipher ==
    \/ \E sid \in SessionIds, p \in SeqUpTo(Bytes, MaxPlain),
          k \in KeyMaterials : quantum_encrypt(sid, p, k)
    \/ \E k \in KeyMaterials : quantum_decrypt_encrypted(k)

(***************************************************************************)
(* Specifications                                                          *)
(***************************************************************************)
InitFirst ==
    InitScans /\ InitRate({1}, {1}) /\ InitTokens /\ InitPerm /\ InitAuth
InitRest ==
    InitGuard /\ InitBlind /\ InitLife /\ InitSessions /\ InitAieo
    /\ InitPool
    /\ InitCounter
    /\ InitScopes
    /\ InitCipher
NoBuckets == [b \in BucketNames |-> "absent"]
InitLater == InitRest /\ InitQuantum({NoSessions}) /\ InitNats({NoBuckets})

Init == InitFirst /\ InitLater
InitAnyQber ==
    InitFirst /\ InitRest /\ InitQuantum(SessionTables) /\ InitNats({NoBuckets})
InitAnyBuckets ==
    /\ InitFirst /\ InitRest /\ InitQuantum({NoSessions})
    /\ InitNats([BucketNames -> {"absent", "same", "other"}])
InitAnyRate ==
    InitScans /\ InitRate(1..MaxLimit, 1..MaxWindow) /\ InitTokens /\ InitPerm
    /\ InitAuth /\ InitLater

SpecScans == Init /\ [][NextScans]_vars
SpecApi == Init /\ [][NextApi]_vars
\* every tool invocation terminates and the executor task is scheduled
SpecScansFair ==
    Init /\ [][NextScansSampled]_vars /\ WF_vars(ExecutorStep(TRUE))
SpecRate == InitAnyRate /\ [][NextRate]_vars
SpecTokens == Init /\ [][NextTokens]_vars
SpecPerm == Init /\ [][NextPerm]_vars
SpecAuth == Init /\ [][NextAuth]_vars
SpecGuard == Init /\ [][NextGuard]_vars
SpecQuantum == InitAnyQber /\ [][NextQuantum]_vars
SpecBlind == Init /\ [][NextBlind]_vars
SpecLife == Init /\ [][NextLife]_vars
SpecNats == InitAnyBuckets /\ [][NextNats]_vars
SpecSessions == Init /\ [][NextSessions]_vars
SpecAieo == Init /\ [][NextAieo]_vars
SpecPool == Init /\ [][NextPool]_vars
SpecCounters == InitAnyRate /\ [][NextCounters]_vars
SpecRateFailing == InitAnyRate /\ [][NextRateFailing]_vars
SpecScopes == Init /\ [][NextScopes]_vars
SpecCipher == InitAnyQber /\ [][NextCipher]_vars

(***************************************************************************)
(* Properties of the security manager and of registration                  *)
(***************************************************************************)
\* C8: verify_token never raises; for a token create_access_token issued,
\* presented less than 10,080 minutes after its issue, it returns the claims
\* with the user's id and role; for every other token it returns nothing.
C8_VerifyToken ==
    sec_verify.outcome # "nocall" =>
        /\ sec_verify.outcome # "raised"
        /\ IF /\ sec_verify.token \in sec_issued
              /\ sec_verify.at < sec_verify.token.payload.iat + 10080
           THEN /\ sec_verify.outcome = "payload"
                /\ sec_verify.payload.sub = sec_verify.token.payload.sub
                /\ sec_verify.payload.role = sec_verify.token.payload.role
           ELSE sec_verify.outcome = "none"

C9_Rank == [viewer |-> 1, operator |-> 2, researcher |-> 3, admin |-> 4]

\* C9: check_permission(actual, required) is true iff rank(actual) >=
\* rank(required) with viewer=1 < operator=2 < researcher=3 < admin=4; it is
\* reflexive, transitive, true for admin against every role and false for
\* viewer against operator.
C9_RoleHierarchy ==
    \A i \in DOMAIN perm_hist :
        LET e == perm_hist[i]
        IN  /\ e.result = (C9_Rank[e.user_role] >= C9_Rank[e.required_role])
            /\ e.user_role = e.required_role => e.result
            /\ e.user_role = "admin" => e.result
            /\ (e.user_role = "viewer" /\ e.required_role = "operator") => ~e.result
            /\ \A j \in DOMAIN perm_hist, k \in DOMAIN perm_hist :
                  (/\ e.result /\ perm_hist[j].result
                   /\ perm_hist[j].user_role = e.required_role
                   /\ perm_hist[k].user_role = e.user_role
                   /\ perm_hist[k].required_role = perm_hist[j].required_role)
                  => perm_hist[k].result

\* a chain admin >= researcher >= operator was checked, and its conclusion
C9_Witness ==
    /\ Len(perm_hist) = 3
    /\ perm_hist[1] = [user_role |-> "admin", required_role |-> "researcher",
                       result |-> TRUE]
    /\ perm_hist[2] = [user_role |-> "researcher", required_role |-> "operator",
                       result |-> TRUE]
    /\ perm_hist[3] = [user_role |-> "admin", required_role |-> "operator",
                       result |-> TRUE]

\* C10: no two stored users share a username or an email, and every
\* register request that created no user was answered 400.
C10_RegisterConflict ==
    /\ \A a \in users, b \in users :
          a.id # b.id => a.username # b.username /\ a.email # b.email
    /\ \A c \in Clients :
          reg_resp[c].code # 0 =>
              IF reg_resp[c].user_id # 0
              THEN reg_resp[c].code = HTTP_200_OK
              ELSE reg_resp[c].code = HTTP_400_BAD_REQUEST

\* C11: an authenticated endpoint's handler runs only if at request time the
\* bearer token verifies (issued, rightly signed, not expired) and its
\* subject is a user that exists and is active; every other request is
\* answered 401 and its handler does not run.
C11_AuthenticatedOnly ==
    guard_resp.code # 0 =>
        LET accepted ==
                /\ guard_resp.token \in sec_issued
                /\ guard_resp.at < guard_resp.token.payload.iat + 10080
                /\ guard_resp.account = "active"
        IN  /\ guard_resp.handler => accepted
            /\ ~accepted => /\ guard_resp.code = HTTP_401_UNAUTHORIZED
                            /\ ~guard_resp.handler

\* C12: every simulate_qkd_protocol call with e error bits among t test bits
\* yields metadata whose security_check is PASSED iff e/t < 0.11 (0 when
\* t = 0) and whose eavesdropping_detected is true iff e/t > 0.11; at exactly
\* 0.11 it is FAILED, and PASSED never comes with eavesdropping_detected.
C12_QberThreshold ==
    qkd_call.outcome # "nocall" =>
        LET e == qkd_call.error_bits
            t == qkd_call.test_bits
            m == qkd_call.metadata
        IN  /\ qkd_call.outcome = "returned"
            /\ (m.security_check = "PASSED") = (t = 0 \/ 100 * e < 11 * t)
            /\ m.eavesdropping_detected = (t # 0 /\ 100 * e > 11 * t)
            /\ (t # 0 /\ 100 * e = 11 * t) => m.security_check = "FAILED"
            /\ ~(m.security_check = "PASSED" /\ m.eavesdropping_detected)

C14_BlindingLayout ==
    blind_call.outcome # "nocall" =>
        LET real == blind_call.real_data
            off == blind_call.insert_pos
        IN  /\ blind_call.outcome = "returned"
            /\ Len(blind_call.result) = Len(real) * (blind_call.noise_ratio + 1)
            /\ 0 <= off /\ off <= Len(blind_call.noise) - Len(real)
            /\ SubSeq(blind_call.result, off + 1, off + Len(real)) = real

\* C15: when the shutdown has ended, closing the messaging client, closing
\* the cache client and disposing the database pool have each been
\* attempted, whichever of them raised.
C15_ShutdownAttemptsAll ==
    life_pc = "down" => shut_attempted = ShutdownSteps

\* C16: the heartbeat loop ends only by cancellation: an error in one
\* iteration (metrics, cleanup or record_telemetry) is logged and the loop
\* goes on to its next iteration.
C16_HeartbeatSurvives ==
    /\ hb.pc = "ended" => hb.cause = "cancelled"
    /\ hb.failed # "none" => (hb.logged > 0 /\ hb.cause # "error")

\* C17: whenever a run of the bucket setup has ended, whether each of the
\* buckets config, sessions, cache and telemetry was absent or existed, the
\* setup has not raised and all four buckets are registered with the client,
\* so that kv_put, kv_get and kv_delete accept them.
C17_SetupIdempotent ==
    (kv_setup.pc = "idle" /\ kv_setup.runs > 0) =>
        /\ ~kv_setup.raised
        /\ kv_stores = BucketNames

\* C18: kv_get never raises; it returns the stored value when the key is
\* present and nothing fails, and returns an absent value when the key is
\* missing, when the bucket is not found (on the bus or on this client) and
\* on a store error.
C18_KvGetNeverRaises ==
    kv_call.op = "kv_get" =>
        /\ kv_call.outcome = "returned"
        /\ kv_call.value =
               IF /\ kv_call.registered /\ ~kv_call.error
                  /\ kv_call.server # "absent"
               THEN kv_call.stored
               ELSE NoValue

\* C19: update_session(id, d) on a session that exists when it is read
\* returns true and stores the data read, with the fields of d overriding
\* and every other field kept; on an absent session it returns false and
\* stores no session key.
C19_UpdateSession ==
    upd_resp.called =>
        IF upd_resp.existed
        THEN /\ upd_resp.result
             /\ upd_resp.present
             /\ DOMAIN upd_resp.after = DOMAIN upd_resp.before \cup DOMAIN upd_resp.data
             /\ \A f \in DOMAIN upd_resp.after :
                   upd_resp.after[f] = IF f \in DOMAIN upd_resp.data
                                       THEN upd_resp.data[f]
                                       ELSE upd_resp.before[f]
        ELSE ~upd_resp.result /\ ~upd_resp.present

\* C20: get_loop_events and trigger_loop_execution answer 400 for every
\* loop_type other than slow, medium and fast, and answer 200 for each of
\* slow, medium and fast.
C20_LoopTypeValidation ==
    aieo_resp.endpoint \in {"events", "trigger"} =>
        IF aieo_resp.loop_type \in {"slow", "medium", "fast"}
        THEN aieo_resp.code = 200
        ELSE aieo_resp.code = 400

\* both endpoints have answered: a loop type was accepted or refused
C20_Witness ==
    /\ aieo_resp.endpoint = "trigger"
    /\ aieo_resp.loop_type = "fast"
    /\ aieo_resp.code = 200
    /\ aieo_now > 0

\* C21: at no time are more than MAX_CONCURRENT_SCANS scans executing: a
\* create_scan request arriving at the limit starts no further executor.
C21_ConcurrentScansBounded == pool.executing <= MAX_CONCURRENT_SCANS

C23_NoLostIncrement ==
    /\ RateKey \in DOMAIN redis_keys =>
          redis_keys[RateKey].value = rl_ordinal
    /\ LET W == {c \in Callers : /\ rl_calls[c].pc = "returned"
                                 /\ rl_calls[c].seq > rl_total - rl_ordinal}
       IN  Cardinality(W) = rl_ordinal =>
              Cardinality({c \in W : rl_calls[c].result}) =
                  IF rl_ordinal <= rl_limit THEN rl_ordinal ELSE rl_limit
    /\ metric_read.called => metric_read.value = metric_read.sum
    /\ metric_key # <<>> => metric_key[1] = metric_hist.sum

\* two calls interleaved in one window of limit 1 have both returned, and
\* the counter was read after two increments
C23_Witness ==
    /\ rl_limit = 1
    /\ rl_ordinal = 2
    /\ \A c \in Callers : /\ rl_calls[c].pc = "returned"
                          /\ rl_calls[c].seq > rl_total - rl_ordinal
    /\ metric_read.called
    /\ metric_read.count = 2
    /\ metric_read.value = 3

\* C24: within one scan no ScanResult or Vulnerability row is stored and no
\* total is set before the tool invocation for the last target has
\* finished, and the status becomes completed only after the rows and the
\* totals are stored.
C24_PersistAfterTools ==
    \A id \in DOMAIN exec :
        /\ (ResultsOf(id) # {} \/ VulnerabilitiesOf(id) # {}) =>
              /\ tool_stats[id].invoked = exec[id].targets
              /\ exec[id].pc \in {"final", "done", "raised"}
        /\ (id \in DOMAIN scans /\ exec[id].pc \notin {"final", "done", "raised"}) =>
              /\ scans[id].total_hosts = 0
              /\ scans[id].total_services = 0
              /\ scans[id].vulnerabilities_found = 0
        /\ (id \in DOMAIN scans /\ scans[id].status = "completed") =>
              /\ exec[id].pc = "done"
              /\ scans[id].total_hosts = Cardinality(ResultsOf(id))
              /\ scans[id].vulnerabilities_found =
                     Cardinality(VulnerabilitiesOf(id))

\* the rows and totals of a scan of two targets are stored and its status
\* is not yet completed
C24_Witness ==
    \E id \in DOMAIN exec \cap DOMAIN scans :
        /\ exec[id].pc = "final"
        /\ exec[id].targets = 2
        /\ ResultsOf(id) # {}
        /\ VulnerabilitiesOf(id) # {}
        /\ scans[id].vulnerabilities_found > 0
        /\ scans[id].status = "running"

\* C25: no database session is used after the scope that acquired it has
\* exited, and the background executor of a scan does not use the session
\* of the request that created the scan.
C25_SessionPerOperation ==
    /\ db_late_use = {}
    /\ \A r \in 1..MaxRequests :
          bg_task[r].pc # "none" => bg_task[r].db # r

C27_DeletedStaysDeleted ==
    [][\A sid \in CacheSessionIds :
          (sid \notin DOMAIN session_keys /\ sid \in DOMAIN session_keys') =>
              ~update_session_set]_vars

\* C28: in every reachable state of a scan, whatever the interleaving of the
\* executor with cancel_scan: pending implies started_at and completed_at
\* unset; running implies started_at set and completed_at unset; and
\* completed_at is set iff the status is completed.
C28_StatusTimestamps ==
    \A id \in DOMAIN scans :
        /\ scans[id].status = "pending" =>
              ~scans[id].started_at /\ ~scans[id].completed_at
        /\ scans[id].status = "running" =>
              scans[id].started_at /\ ~scans[id].completed_at
        /\ scans[id].completed_at <=> scans[id].status = "completed"

\* C29: whenever no check_rate_limit call on the key is in progress, a
\* rate-limit counter key that exists has an expiry set, also when a call
\* failed between its increment and its expiry-setting step.
C29_CounterKeyExpires ==
    (\A c \in Callers : rl_calls[c].pc # "incremented") =>
        (RateKey \in DOMAIN redis_keys => redis_keys[RateKey].ttl > 0)

====
